---- MODULE Spec2Model ----
(***************************************************************************)
(* TriggerTaskServiceV2.call                                               *)
(* (apps/webapp/app/v3/services/triggerTaskV2.server.ts) as a state        *)
(* machine: NCalls invocations of call() run concurrently against one      *)
(* database, one object store, one entitlement service, one event          *)
(* repository and one run engine.  Every await of the method is a step of  *)
(* its own, so that the invocations interleave exactly where the code      *)
(* suspends.                                                               *)
(*                                                                         *)
(* An optional value (undefined / null in the source) is a set with no     *)
(* element, a present one a set with one element.  Strings that the code   *)
(* takes apart or builds (task identifiers, queue names) are sequences of  *)
(* one-character strings.                                                  *)
(***************************************************************************)
EXTENDS Integers, Sequences, FiniteSets, TLC

VARIABLES
  call,            \* per invocation: position in call() and its locals
  taskRun,         \* database: the committed TaskRun rows
  taskRunTag,      \* database: the committed tag rows
  counter,         \* the auto-increment counter's committed value per key
  txLock,          \* the invocation holding the counter row of a key
  objectStore,     \* the blobs uploaded to the object store
  events,          \* the trace events the event repository has recorded
  tz,              \* the time zone of the process (the local time of Date)
  probe,           \* a function of the module applied on its own: input and result
  tasks,           \* TaskTracker: the entries of its Map, in insertion order
  operations       \* TaskTracker: the operations made on it so far

vars == <<call, taskRun, taskRunTag, counter, txLock, objectStore, events, tz, probe, tasks, operations>>

----------------------------------------------------------------------------
(* Bounds of the model *)

NCalls == 2

Calls == 1..NCalls

----------------------------------------------------------------------------
(* Optional values *)

None == {}

Some(x) == {x}

Get(o) == CHOOSE x \in o : TRUE

IsSome(o) == o # {}

----------------------------------------------------------------------------
(* The fixtures of the database that call() only reads *)

EnvProd ==
  [id |-> "env_prod", type |-> "PRODUCTION", projectId |-> "proj_1",
   organizationId |-> "org_1"]

EnvDev ==
  [id |-> "env_dev", type |-> "DEVELOPMENT", projectId |-> "proj_1",
   organizationId |-> "org_1"]

TaskA == <<"t", "a">>

TaskB == <<"T", " ", "b">>

\* Tasks whose BackgroundWorkerTask row has a queueConfig that does not parse,
\* is null, is an object without name, is an object with the name "".
TaskC == <<"c">>

TaskD == <<"d">>

TaskE == <<"e">>

TaskF == <<"f">>

\* isFinalAttemptStatus of ../taskStatus
FINAL_ATTEMPT_STATUSES == {"CANCELED", "FAILED", "COMPLETED"}

isFinalAttemptStatus(status) == status \in FINAL_ATTEMPT_STATUSES

\* isFinalRunStatus of ../taskStatus
FINAL_RUN_STATUSES ==
  {"CANCELED", "INTERRUPTED", "COMPLETED_SUCCESSFULLY", "COMPLETED_WITH_ERRORS",
   "SYSTEM_FAILURE", "CRASHED", "EXPIRED", "TIMED_OUT"}

isFinalRunStatus(status) == status \in FINAL_RUN_STATUSES

\* The taskRun projection the attempt loads select: id, status, rootTaskRunId, depth.
ParentRun(id, status, root, depth) ==
  [id |-> id, status |-> status, rootTaskRunId |-> root, depth |-> depth]

\* taskRunAttempt rows, by friendlyId, each with its joined taskRun.
TaskRunAttempts ==
  [f \in {"attempt_live", "attempt_failed", "attempt_runDone", "attempt_bothDone"} |->
     CASE f = "attempt_live" ->
            [friendlyId |-> f, status |-> "EXECUTING",
             taskRun |-> ParentRun("run_p1", "EXECUTING", None, 0)]
       [] f = "attempt_failed" ->
            [friendlyId |-> f, status |-> "FAILED",
             taskRun |-> ParentRun("run_p2", "EXECUTING", Some("run_root"), 1)]
       [] f = "attempt_runDone" ->
            [friendlyId |-> f, status |-> "EXECUTING",
             taskRun |-> ParentRun("run_p3", "COMPLETED_SUCCESSFULLY", Some("run_root"), 2)]
       [] f = "attempt_bothDone" ->
            [friendlyId |-> f, status |-> "COMPLETED",
             taskRun |-> ParentRun("run_p4", "CANCELED", None, 0)]]

\* batchTaskRun rows, by friendlyId, each with its optional dependentTaskAttempt.
BatchTaskRuns ==
  [f \in {"batch_live", "batch_noAttempt", "batch_failed", "batch_runDone"} |->
     CASE f = "batch_live" ->
            [id |-> "b1", friendlyId |-> f, status |-> "PENDING",
             dependentTaskAttempt |-> Some(TaskRunAttempts["attempt_live"])]
       [] f = "batch_noAttempt" ->
            [id |-> "b2", friendlyId |-> f, status |-> "PENDING",
             dependentTaskAttempt |-> None]
       [] f = "batch_failed" ->
            [id |-> "b3", friendlyId |-> f, status |-> "PENDING",
             dependentTaskAttempt |-> Some(TaskRunAttempts["attempt_failed"])]
       [] f = "batch_runDone" ->
            [id |-> "b4", friendlyId |-> f, status |-> "PENDING",
             dependentTaskAttempt |-> Some(TaskRunAttempts["attempt_runDone"])]]

\* prisma.taskRunAttempt.findUnique({ where: { friendlyId } })
findAttempt(friendlyId) ==
  IF friendlyId \in DOMAIN TaskRunAttempts THEN Some(TaskRunAttempts[friendlyId]) ELSE None

\* prisma.batchTaskRun.findUnique({ where: { friendlyId } })
findBatch(friendlyId) ==
  IF friendlyId \in DOMAIN BatchTaskRuns THEN Some(BatchTaskRuns[friendlyId]) ELSE None

----------------------------------------------------------------------------
(* The requests: the arguments of call() *)

MAX_TAGS_PER_RUN == 8

\* env.TASK_PAYLOAD_OFFLOAD_THRESHOLD, in characters of the serialized payload
TASK_PAYLOAD_OFFLOAD_THRESHOLD == 4

NoTags == [given |-> "absent", items |-> <<>>]

StringTag(t) == [given |-> "string", items |-> <<t>>]

ArrayTags(ts) == [given |-> "array", items |-> ts]

NineTags == <<"g1", "g2", "g3", "g4", "g5", "g6", "g7", "g8", "g9">>

\* A payload: an object (text is its JSON serialization), a string, or undefined.
ObjectPayload(text) == [kind |-> "object", text |-> text]

StringPayload(text) == [kind |-> "string", text |-> text]

SmallPayload == ObjectPayload(<<"{", "}">>)

BigPayload == ObjectPayload(<<"{", "x", ":", "1", "}">>)

\* Date.now(), in seconds since the epoch; the model's clock stands still.
Now == 1700000000

\* body.options.delay: a Date, or a string.
DateDelay(time) == [kind |-> "Date", time |-> time, text |-> <<>>]

StringDelay(text) == [kind |-> "string", time |-> 0, text |-> text]

\* body.options.ttl: a number of seconds or a string.
NumberTtl(seconds) == [kind |-> "number", seconds |-> seconds, text |-> <<>>]

StringTtl(text) == [kind |-> "string", seconds |-> 0, text |-> text]

BaseRequest ==
  [taskId |-> TaskA,
   environment |-> EnvProd,
   optionsIdempotencyKey |-> None,      \* options.idempotencyKey
   idempotencyKey |-> None,             \* body.options.idempotencyKey
   tags |-> NoTags,
   payload |-> SmallPayload,
   payloadType |-> None,
   dependentAttempt |-> None,
   parentAttempt |-> None,
   dependentBatch |-> None,
   parentBatch |-> None,
   lockToVersion |-> None,
   queueName |-> None,
   delay |-> None,
   ttl |-> None]

\* Requests that contend with another invocation: over the idempotency key, the
\* counter of an (environment, task) and the tag rows.
Contenders ==
  { BaseRequest,
    [BaseRequest EXCEPT !.idempotencyKey = Some("k1")],
    [BaseRequest EXCEPT !.idempotencyKey = Some("k1"), !.tags = ArrayTags(<<"a", "b">>)],
    [BaseRequest EXCEPT !.taskId = TaskB, !.tags = StringTag("a")] }

Requests ==
  Contenders \cup
  { [BaseRequest EXCEPT !.optionsIdempotencyKey = Some("k1"), !.idempotencyKey = Some("k2")],
    [BaseRequest EXCEPT !.idempotencyKey = Some("")],
    [BaseRequest EXCEPT !.environment = EnvDev],
    [BaseRequest EXCEPT !.environment = EnvDev, !.idempotencyKey = Some("k1")],
    [BaseRequest EXCEPT !.tags = StringTag("")],
    [BaseRequest EXCEPT !.tags = ArrayTags(NineTags)],
    [BaseRequest EXCEPT !.payload = BigPayload],
    [BaseRequest EXCEPT !.payload = StringPayload(<<"h", "i">>), !.payloadType = Some("text/plain")],
    [BaseRequest EXCEPT !.payload = BigPayload, !.payloadType = Some("application/octet-stream")],
    [BaseRequest EXCEPT !.payload = BigPayload, !.dependentAttempt = Some("attempt_failed")],
    [BaseRequest EXCEPT !.payload = BigPayload, !.tags = ArrayTags(NineTags)],
    [BaseRequest EXCEPT !.dependentAttempt = Some("attempt_live")],
    [BaseRequest EXCEPT !.idempotencyKey = Some("k1"),
                        !.dependentAttempt = Some("attempt_failed")],
    [BaseRequest EXCEPT !.dependentAttempt = Some("attempt_runDone")],
    [BaseRequest EXCEPT !.dependentAttempt = Some("attempt_bothDone")],
    [BaseRequest EXCEPT !.dependentAttempt = Some("attempt_unknown")],
    [BaseRequest EXCEPT !.parentAttempt = Some("attempt_live")],
    [BaseRequest EXCEPT !.parentAttempt = Some("attempt_failed")],
    [BaseRequest EXCEPT !.parentAttempt = Some("attempt_runDone")],
    [BaseRequest EXCEPT !.parentAttempt = Some("attempt_bothDone"),
                        !.parentBatch = Some("batch_failed")],
    [BaseRequest EXCEPT !.parentBatch = Some("batch_runDone")],
    [BaseRequest EXCEPT !.dependentBatch = Some("batch_live")],
    [BaseRequest EXCEPT !.dependentBatch = Some("batch_noAttempt")],
    [BaseRequest EXCEPT !.dependentBatch = Some("batch_failed")],
    [BaseRequest EXCEPT !.dependentBatch = Some("batch_runDone")],
    [BaseRequest EXCEPT !.dependentBatch = Some("batch_unknown")],
    [BaseRequest EXCEPT !.dependentAttempt = Some("attempt_live"),
                        !.dependentBatch = Some("batch_failed")],
    [BaseRequest EXCEPT !.dependentAttempt = Some("attempt_live"),
                        !.parentAttempt = Some("attempt_failed")],
    [BaseRequest EXCEPT !.dependentAttempt = Some("attempt_failed"),
                        !.dependentBatch = Some("batch_runDone")],
    [BaseRequest EXCEPT !.lockToVersion = Some("v1")],
    [BaseRequest EXCEPT !.lockToVersion = Some("v0")],
    [BaseRequest EXCEPT !.queueName = Some(<<"M", "y", " ", "Q">>)],
    [BaseRequest EXCEPT !.taskId = TaskC],
    [BaseRequest EXCEPT !.taskId = TaskD],
    [BaseRequest EXCEPT !.taskId = TaskE],
    [BaseRequest EXCEPT !.taskId = TaskF],
    [BaseRequest EXCEPT !.taskId = TaskF, !.queueName = Some(<<"!">>)],
    [BaseRequest EXCEPT !.delay = Some(DateDelay(Now - 60))],
    [BaseRequest EXCEPT !.delay = Some(DateDelay(Now + 60))],
    [BaseRequest EXCEPT !.delay = Some(StringDelay(<<"2", "0", "0", "0">>))],
    [BaseRequest EXCEPT !.delay = Some(StringDelay(<<"2", "0", "3", "0">>))],
    [BaseRequest EXCEPT !.delay = Some(StringDelay(<<"1", "h">>))],
    [BaseRequest EXCEPT !.delay = Some(StringDelay(<<"1", "w", "2", "d", "3", "0", "s">>))],
    [BaseRequest EXCEPT !.delay = Some(StringDelay(<<"1", "d", "1", "w">>))],
    [BaseRequest EXCEPT !.delay = Some(StringDelay(<<"s", "o", "o", "n">>))],
    [BaseRequest EXCEPT !.delay = Some(StringDelay(<<>>))],
    [BaseRequest EXCEPT !.ttl = Some(NumberTtl(3690))],
    [BaseRequest EXCEPT !.ttl = Some(NumberTtl(-5))],
    [BaseRequest EXCEPT !.environment = EnvDev, !.ttl = Some(NumberTtl(45))],
    [BaseRequest EXCEPT !.environment = EnvDev, !.ttl = Some(NumberTtl(0))],
    [BaseRequest EXCEPT !.environment = EnvDev, !.ttl = Some(StringTtl(<<"1", "h">>))],
    [BaseRequest EXCEPT !.ttl = Some(StringTtl(<<"f", "o", "r", "e", "v", "e", "r">>))],
    [BaseRequest EXCEPT !.environment = EnvDev, !.ttl = Some(StringTtl(<<>>))] }

----------------------------------------------------------------------------
(* Errors thrown out of call() *)

Error(name, about, status, limit, count) ==
  [name |-> name, about |-> about, status |-> status, limit |-> limit, count |-> count]

NoError == Error("none", "", "", 0, 0)

\* new OutOfEntitlementError()
OutOfEntitlementError == Error("OutOfEntitlementError", "credits", "", 0, 0)

\* `Runs can only have ${MAX_TAGS_PER_RUN} tags, you're trying to set ${tags.length}.`
TagLimitError(count) == Error("ServiceValidationError", "tags", "", MAX_TAGS_PER_RUN, count)

\* `Cannot trigger ${taskId} as the parent attempt has a status of ${status}`
ParentAttemptStatusError(status) == Error("ServiceValidationError", "parent attempt", status, 0, 0)

\* `Cannot trigger ${taskId} as the parent run has a status of ${status}`
ParentRunStatusError(status) == Error("ServiceValidationError", "parent run", status, 0, 0)

\* A collaborator (database, entitlement service, object store, event
\* repository, engine) throws; call() has no catch, so its error is call()'s.
CollaboratorError(who) == Error("CollaboratorError", who, "", 0, 0)

\* The database rejects an insert that would repeat a unique key (Prisma P2002).
UniqueConstraintError == Error("PrismaClientKnownRequestError", "P2002", "", 0, 0)

----------------------------------------------------------------------------
(* The steps of call(), in the order of the source text *)

\* The order with the entitlement check made only after the payload was handled.
OrderEntitlementAfterPayload ==
  << "normalize", "lookup", "validateTags", "payload", "entitlement",
     "dependentAttempt", "parentAttempt", "dependentBatch", "parentBatch",
     "traceEvent", "counter", "lockToVersion", "queueName", "upsertTags",
     "trigger", "commit" >>

\* The order with the entitlement check made before the idempotency lookup.
OrderEntitlementBeforeLookup ==
  << "normalize", "entitlement", "lookup", "validateTags", "payload",
     "dependentAttempt", "parentAttempt", "dependentBatch", "parentBatch",
     "traceEvent", "counter", "lockToVersion", "queueName", "upsertTags",
     "trigger", "commit" >>

Order ==
  << "normalize",          \* lines 64-70
     "lookup",             \* lines 72-88
     "entitlement",        \* lines 90-95
     "validateTags",       \* lines 97-105
     "payload",            \* lines 107-114
     "dependentAttempt",   \* lines 123-158
     "parentAttempt",      \* lines 160-175
     "dependentBatch",     \* lines 177-219
     "parentBatch",        \* lines 221-239
     "traceEvent",         \* lines 241-264
     "counter",            \* lines 265-267, 361-375
     "lockToVersion",      \* lines 268-278
     "queueName",          \* lines 280-290
     "upsertTags",         \* lines 292-306
     "trigger",            \* lines 308-357
     "commit" >>           \* lines 359-377

IndexOf(seq, x) == CHOOSE i \in 1..Len(seq) : seq[i] = x

After(step) ==
  IF IndexOf(Order, step) = Len(Order) THEN "done" ELSE Order[IndexOf(Order, step) + 1]

\* The locals of one invocation before it has run.
NewCall(request) ==
  [pc |-> Order[1],
   req |-> request,
   steps |-> <<>>,                      \* the steps taken so far, in order
   idempotencyKey |-> None,
   delayUntil |-> None,
   ttl |-> None,
   existingRun |-> None,
   runFriendlyId |-> None,
   payloadPacket |-> None,
   dependentAttempt |-> None,
   parentAttempt |-> None,
   dependentBatchRun |-> None,
   parentBatchRun |-> None,
   num |-> None,
   lockedToBackgroundWorker |-> None,
   queueName |-> None,
   queueLookups |-> <<>>,               \* the lookups #getQueueName made
   tagIds |-> <<>>,
   tagsDone |-> 0,                      \* iterations of the tag loop completed
   taskRun |-> None,
   result |-> None,                     \* the Run call() returned
   error |-> NoError,                   \* the error call() threw
   entitlementFetches |-> 0,            \* getEntitlement calls made
   entitlement |-> None,                \* the reply of getEntitlement, once it came
   triggered |-> <<>>,                  \* the arguments of each engine.trigger call
   counterCommitted |-> FALSE,          \* its counter transaction committed
   startedAfter |-> {}]                 \* the invocations that had returned when it began

\* The invocation after `step` completed.
Moved(c, step) == [c EXCEPT !.pc = After(step), !.steps = Append(@, step)]

\* The invocation after `step` threw `err`.
Thrown(c, step, err) ==
  [c EXCEPT !.pc = "failed", !.steps = Append(@, step), !.error = err]

\* The invocation after it returned `run` from `step`.
Returned(c, step, run) ==
  [c EXCEPT !.pc = "done", !.steps = Append(@, step), !.result = Some(run)]

\* JavaScript truthiness of an optional string: present and not empty.
Truthy(o) == IsSome(o) /\ Get(o) # ""

\* The same for a string kept as a sequence of characters.
TruthyChars(o) == IsSome(o) /\ Get(o) # <<>>

----------------------------------------------------------------------------
(* Lines 480-542: parseDelay and parseNaturalLanguageDuration *)

DigitChars == <<"0", "1", "2", "3", "4", "5", "6", "7", "8", "9">>

IsDigit(ch) == \E i \in 1..Len(DigitChars) : DigitChars[i] = ch

DigitValue(ch) == IndexOf(DigitChars, ch) - 1

RECURSIVE NumberOf(_)
\* Number(digits) of a string of decimal digits
NumberOf(digits) ==
  IF digits = <<>> THEN 0
  ELSE NumberOf(SubSeq(digits, 1, Len(digits) - 1)) * 10 + DigitValue(digits[Len(digits)])

\* The leap days of the years before year y.
LeapDaysBefore(y) == ((y - 1) \div 4) - ((y - 1) \div 100) + ((y - 1) \div 400)

\* The first second of year y (UTC), in seconds since the epoch.
YearStart(y) == (y - 1970) * 31536000 + (LeapDaysBefore(y) - LeapDaysBefore(1970)) * 86400

\* new Date(value).getTime() for a string: of the date forms of JavaScript the
\* year alone ("2030", midnight UTC of its first day) is modelled; the other
\* strings of the model are no dates and give NaN, written None.
DateParse(text) ==
  IF Len(text) = 4 /\ \A i \in 1..4 : IsDigit(text[i])
    THEN Some(YearStart(NumberOf(text)))
    ELSE None

\* The units of /^(\d+w)?(\d+d)?(\d+h)?(\d+m)?(\d+s)?$/ and their seconds.
DurationUnits == <<"w", "d", "h", "m", "s">>

UnitSeconds == <<604800, 86400, 3600, 60, 1>>

IsDurationUnit(ch) == \E i \in 1..Len(DurationUnits) : DurationUnits[i] = ch

RECURSIVE LeadingDigits(_)
\* The length of the run of digits a string starts with.
LeadingDigits(text) ==
  IF text = <<>> \/ ~IsDigit(text[1]) THEN 0 ELSE 1 + LeadingDigits(Tail(text))

RECURSIVE MatchDuration(_, _)
\* duration.match(regexPattern) from group `from` on: None when `text` does not
\* match to its end, else the number of each group, None for an absent group.
MatchDuration(text, from) ==
  IF text = <<>> THEN Some([unit \in 1..Len(DurationUnits) |-> None])
  ELSE LET n == LeadingDigits(text)
       IN IF n = 0 \/ n = Len(text) \/ ~IsDurationUnit(text[n + 1]) THEN None
          ELSE LET unit == IndexOf(DurationUnits, text[n + 1])
                   rest == MatchDuration(SubSeq(text, n + 2, Len(text)), unit + 1)
               IN IF unit < from \/ rest = None THEN None
                  ELSE Some([Get(rest) EXCEPT ![unit] = Some(NumberOf(SubSeq(text, 1, n)))])

\* A time zone: its offset from UTC in seconds before and from the instant `at`.
UTC == [at |-> 0, before |-> 0, after |-> 0]

\* A zone whose clocks go forward an hour twelve hours after the current time.
SpringForward == [at |-> Now + 43200, before |-> -18000, after |-> -14400]

\* A zone whose clocks go back an hour twelve hours after the current time.
FallBack == [at |-> Now + 43200, before |-> -14400, after |-> -18000]

TimeZones == {UTC, SpringForward, FallBack}

\* The local time of the instant t, as getDate/getHours/getMinutes/getSeconds read it.
LocalTime(zone, t) == t + (IF t < zone.at THEN zone.before ELSE zone.after)

\* The instant of a local time, as setDate/setHours/setMinutes/setSeconds store
\* it: a local time the clocks skip or repeat takes the offset before the change.
FromLocalTime(zone, local) ==
  IF local < zone.at + (IF zone.before > zone.after THEN zone.before ELSE zone.after)
    THEN local - zone.before
    ELSE local - zone.after

\* result.setX(result.getX() + k): k units later on the local clock.
LocalAdd(zone, t, seconds) == FromLocalTime(zone, LocalTime(zone, t) + seconds)

RECURSIVE AddElements(_, _, _)
\* The groups from `unit` on applied in turn to result.
AddElements(result, elements, unit) ==
  IF unit > Len(DurationUnits) THEN result
  ELSE AddElements(IF elements[unit] = None THEN result
                   ELSE LocalAdd(tz, result, Get(elements[unit]) * UnitSeconds[unit]),
                   elements, unit + 1)

\* parseNaturalLanguageDuration: the present groups are added to the current
\* time; no group matched (hasMatch false) gives undefined.
parseNaturalLanguageDuration(duration) ==
  LET elements == MatchDuration(duration, 1)
  IN IF elements = None \/ \A unit \in 1..Len(DurationUnits) : Get(elements)[unit] = None
       THEN None
       ELSE Some(AddElements(Now, Get(elements), 1))

RECURSIVE DigitsOf(_)
\* String(value) of a natural number, as a sequence of characters
DigitsOf(value) ==
  IF value < 10 THEN <<DigitChars[value + 1]>>
  ELSE DigitsOf(value \div 10) \o <<DigitChars[(value % 10) + 1]>>

\* The units object of stringifyDuration, in the order of its properties.
UnitsOf(seconds) ==
  <<seconds \div 604800,
    (seconds % 604800) \div 86400,
    (seconds % 86400) \div 3600,
    (seconds % 3600) \div 60,
    seconds % 60>>

RECURSIVE JoinUnits(_, _)
\* The entries from `unit` on whose value is not 0, each as value and unit, joined.
JoinUnits(units, unit) ==
  IF unit > Len(units) THEN <<>>
  ELSE (IF units[unit] = 0 THEN <<>>
        ELSE DigitsOf(units[unit]) \o <<DurationUnits[unit]>>)
       \o JoinUnits(units, unit + 1)

\* stringifyDuration(seconds), for a whole number of seconds
stringifyDuration(seconds) ==
  IF seconds <= 0 THEN None ELSE Some(JoinUnits(UnitsOf(seconds), 1))

\* parseDelay keeping a date string of the past.
parseDelayKeepingThePast(value) ==
  IF ~IsSome(value) THEN None
  ELSE IF Get(value).kind = "Date" THEN Some(Get(value).time)
  ELSE IF Get(value).text = <<>> THEN None
  ELSE LET date == DateParse(Get(value).text)
       IN IF ~IsSome(date) THEN parseNaturalLanguageDuration(Get(value).text)
          ELSE date

\* parseDelay(value)
parseDelay(value) ==
  IF ~IsSome(value) THEN None
  ELSE IF Get(value).kind = "Date" THEN Some(Get(value).time)
  ELSE IF Get(value).text = <<>> THEN None
  ELSE LET date == DateParse(Get(value).text)
       IN IF ~IsSome(date) THEN parseNaturalLanguageDuration(Get(value).text)
          ELSE IF Get(date) <= Now THEN None
          ELSE date

----------------------------------------------------------------------------
(* Lines 64-88: normalization and the idempotency gate *)

\* options.idempotencyKey ?? body.options?.idempotencyKey
Coalesce(a, b) == IF IsSome(a) THEN a ELSE b

\* The index declared over the wrong column: friendlyId for taskIdentifier.
IdempotencyIndexOverFriendlyId(row) ==
  <<row.runtimeEnvironmentId, row.friendlyId, row.idempotencyKey>>

\* The columns of the unique index runtimeEnvironmentId_taskIdentifier_idempotencyKey.
IdempotencyIndex(row) ==
  <<row.runtimeEnvironmentId, row.taskIdentifier, row.idempotencyKey>>

\* prisma.taskRun.findUnique by that index: the committed rows with the key.
findUniqueTaskRun(environmentId, taskId, key) ==
  {row \in taskRun : IdempotencyIndex(row) = <<environmentId, taskId, Some(key)>>}

\* The default of the DEVELOPMENT environment taken for a number without duration too.
TtlDefaultedForNumbers(request) ==
  IF IsSome(request.ttl) /\ Get(request.ttl).kind = "number"
    THEN Coalesce(stringifyDuration(Get(request.ttl).seconds),
                  IF request.environment.type = "DEVELOPMENT"
                    THEN Some(<<"1", "0", "m">>) ELSE None)
    ELSE Coalesce({t.text : t \in request.ttl},
                  IF request.environment.type = "DEVELOPMENT"
                    THEN Some(<<"1", "0", "m">>) ELSE None)

\* The default taken in every environment.
TtlDefaultedEverywhere(request) ==
  IF IsSome(request.ttl) /\ Get(request.ttl).kind = "number"
    THEN stringifyDuration(Get(request.ttl).seconds)
    ELSE Coalesce({t.text : t \in request.ttl}, Some(<<"1", "0", "m">>))

\* Lines 67-70: a number goes through stringifyDuration; a string is kept; a
\* missing ttl is "10m" in a DEVELOPMENT environment and undefined elsewhere.
Ttl(request) ==
  IF IsSome(request.ttl) /\ Get(request.ttl).kind = "number"
    THEN stringifyDuration(Get(request.ttl).seconds)
    ELSE Coalesce({t.text : t \in request.ttl},
                  IF request.environment.type = "DEVELOPMENT"
                    THEN Some(<<"1", "0", "m">>) ELSE None)

Normalize(c) ==
  /\ call[c].pc = "normalize"
  /\ call' = [call EXCEPT ![c] =
       Moved([@ EXCEPT !.idempotencyKey =
                         Coalesce(call[c].req.optionsIdempotencyKey,
                                  call[c].req.idempotencyKey),
                       !.delayUntil = parseDelay(call[c].req.delay),
                       !.ttl = Ttl(call[c].req),
                       !.startedAfter = {d \in Calls : call[d].pc = "done"}],
             "normalize")]
  /\ UNCHANGED <<taskRun, taskRunTag, counter, txLock, objectStore, events, tz, probe, tasks, operations>>

Lookup(c) ==
  /\ call[c].pc = "lookup"
  /\ LET me == call[c]
         existingRun ==
           IF Truthy(me.idempotencyKey)
             THEN findUniqueTaskRun(me.req.environment.id, me.req.taskId,
                                    Get(me.idempotencyKey))
             ELSE None
     IN \/ /\ IsSome(existingRun)
           /\ call' = [call EXCEPT ![c] =
                Returned([@ EXCEPT !.existingRun = existingRun], "lookup",
                         Get(existingRun))]
        \/ /\ ~IsSome(existingRun)
           /\ call' = [call EXCEPT ![c] = Moved(@, "lookup")]
        \/ /\ Truthy(me.idempotencyKey)
           /\ call' = [call EXCEPT ![c] =
                Thrown(@, "lookup", CollaboratorError("database"))]
  /\ UNCHANGED <<taskRun, taskRunTag, counter, txLock, objectStore, events, tz, probe, tasks, operations>>

----------------------------------------------------------------------------
(* Lines 90-105: the entitlement check and the tag count *)

\* What getEntitlement may answer: nothing, or { hasAccess }.
EntitlementReplies == {None, Some([hasAccess |-> TRUE]), Some([hasAccess |-> FALSE])}

\* The check with an absent reply taken for a refusal.
OutOfEntitlementUnlessGranted(result) ==
  ~IsSome(result) \/ Get(result).hasAccess = FALSE

\* result && result.hasAccess === false
OutOfEntitlement(result) == IsSome(result) /\ Get(result).hasAccess = FALSE

GetEntitlement(c) ==
  /\ call[c].pc = "entitlement"
  /\ \/ /\ call[c].req.environment.type = "DEVELOPMENT"
        /\ call' = [call EXCEPT ![c] = Moved(@, "entitlement")]
     \/ /\ call[c].req.environment.type # "DEVELOPMENT"
        /\ \E result \in EntitlementReplies :
             call' = [call EXCEPT ![c] =
               IF OutOfEntitlement(result)
                 THEN Thrown([@ EXCEPT !.entitlementFetches = @ + 1,
                                       !.entitlement = Some(result)],
                             "entitlement", OutOfEntitlementError)
                 ELSE Moved([@ EXCEPT !.entitlementFetches = @ + 1,
                                      !.entitlement = Some(result)],
                            "entitlement")]
     \/ /\ call[c].req.environment.type # "DEVELOPMENT"
        /\ call' = [call EXCEPT ![c] =
             Thrown([@ EXCEPT !.entitlementFetches = @ + 1], "entitlement",
                    CollaboratorError("entitlement"))]
  /\ UNCHANGED <<taskRun, taskRunTag, counter, txLock, objectStore, events, tz, probe, tasks, operations>>

\* body.options?.tags && typeof tags !== "string" && tags.length > MAX_TAGS_PER_RUN
TooManyTags(tags) == tags.given = "array" /\ Len(tags.items) > MAX_TAGS_PER_RUN

ValidateTags(c) ==
  /\ call[c].pc = "validateTags"
  /\ call' = [call EXCEPT ![c] =
       IF TooManyTags(@.req.tags)
         THEN Thrown(@, "validateTags", TagLimitError(Len(@.req.tags.items)))
         ELSE Moved(@, "validateTags")]
  /\ UNCHANGED <<taskRun, taskRunTag, counter, txLock, objectStore, events, tz, probe, tasks, operations>>

----------------------------------------------------------------------------
(* Lines 107-114, 434-477: the payload packet *)

\* generateFriendlyId("run"): a fresh identifier for each invocation.
generateFriendlyId(c) == <<"run_", ToString(c)>>

\* JSON.stringify: an object's serialization, a string in quotes, nothing for undefined.
JSONStringify(payload) ==
  CASE payload.kind = "object" -> Some(payload.text)
    [] payload.kind = "string" -> Some(<<"\"">> \o payload.text \o <<"\"">>)
    [] OTHER -> None

\* #createPayloadPacket
createPayloadPacket(payload, payloadType) ==
  IF payloadType = "application/json"
    THEN [data |-> JSONStringify(payload), dataType |-> "application/json"]
    ELSE IF payload.kind = "string"
      THEN [data |-> Some(payload.text), dataType |-> payloadType]
      ELSE [data |-> None, dataType |-> payloadType]

\* packetRequiresOffloading of @trigger.dev/core: the serialized size exceeds the threshold.
packetRequiresOffloading(packet, threshold) ==
  [needsOffloading |-> Len(Get(packet.data)) > threshold, size |-> Len(Get(packet.data))]

\* The filename without the run's prefix.
PayloadFilenameWithoutPrefix(pathPrefix) == <<"payload.json">>

\* `${pathPrefix}/payload.json`
PayloadFilename(pathPrefix) == pathPrefix \o <<"/payload.json">>

\* Whether #handlePayloadPacket uploads the packet.
Offloads(packet) ==
  /\ TruthyChars(packet.data)
  /\ packetRequiresOffloading(packet, TASK_PAYLOAD_OFFLOAD_THRESHOLD).needsOffloading

HandlePayload(c) ==
  /\ call[c].pc = "payload"
  /\ LET me == call[c]
         runFriendlyId == generateFriendlyId(c)
         packet == createPayloadPacket(me.req.payload,
                     Get(Coalesce(me.req.payloadType, Some("application/json"))))
         filename == PayloadFilename(runFriendlyId)
     IN \/ /\ ~Offloads(packet)
           /\ call' = [call EXCEPT ![c] =
                Moved([@ EXCEPT !.runFriendlyId = Some(runFriendlyId),
                                !.payloadPacket = Some(packet)], "payload")]
           /\ UNCHANGED objectStore
        \/ /\ Offloads(packet)
           /\ objectStore' = objectStore \cup
                {[filename |-> filename, data |-> Get(packet.data),
                  contentType |-> packet.dataType, environmentId |-> me.req.environment.id]}
           /\ call' = [call EXCEPT ![c] =
                Moved([@ EXCEPT !.runFriendlyId = Some(runFriendlyId),
                                !.payloadPacket =
                                   Some([data |-> Some(filename),
                                         dataType |-> "application/store"])],
                      "payload")]
        \/ /\ Offloads(packet)
           /\ call' = [call EXCEPT ![c] =
                Thrown([@ EXCEPT !.runFriendlyId = Some(runFriendlyId)], "payload",
                       CollaboratorError("object store"))]
           /\ UNCHANGED objectStore
  /\ UNCHANGED <<taskRun, taskRunTag, counter, txLock, events, tz, probe, tasks, operations>>

----------------------------------------------------------------------------
(* Lines 123-239: the dependency loads and the terminal-state gate *)

\* isFinalAttemptStatus(attempt.status) || isFinalRunStatus(attempt.taskRun.status)
InTerminalState(attempt) ==
  isFinalAttemptStatus(attempt.status) \/ isFinalRunStatus(attempt.taskRun.status)

\* The error of lines 149-157 and 210-218.
TerminalStateError(attempt) ==
  IF isFinalAttemptStatus(attempt.status)
    THEN ParentAttemptStatusError(attempt.status)
    ELSE ParentRunStatusError(attempt.taskRun.status)

\* The check with the status of the attempt's taskRun left out.
DependentAttemptBlocksOnAttemptStatus(dependentAttempt) ==
  IsSome(dependentAttempt) /\ isFinalAttemptStatus(Get(dependentAttempt).status)

\* Lines 140-144: the loaded dependentAttempt stops the trigger.
DependentAttemptBlocks(dependentAttempt) ==
  IsSome(dependentAttempt) /\ InTerminalState(Get(dependentAttempt))

\* Lines 198-203: the loaded dependentBatchRun stops the trigger.
DependentBatchBlocks(dependentBatchRun) ==
  /\ IsSome(dependentBatchRun)
  /\ IsSome(Get(dependentBatchRun).dependentTaskAttempt)
  /\ InTerminalState(Get(Get(dependentBatchRun).dependentTaskAttempt))

\* The parentAttempt checked the way the dependentAttempt is.
ParentAttemptBlocksWhenTerminal(parentAttempt) ==
  IsSome(parentAttempt) /\ InTerminalState(Get(parentAttempt))

\* Lines 160-175: nothing is checked on the loaded parentAttempt.
ParentAttemptBlocks(parentAttempt) == FALSE

\* Lines 221-239: nothing is checked on the loaded parentBatchRun.
ParentBatchBlocks(parentBatchRun) == FALSE

\* The parentBatchRun load selects the attempt's taskRun without its depth.
WithoutDepth(batch) ==
  [batch EXCEPT !.dependentTaskAttempt =
     {[a EXCEPT !.taskRun = [id |-> @.id, status |-> @.status,
                              rootTaskRunId |-> @.rootTaskRunId]] : a \in @}]

LoadDependentAttempt(c) ==
  /\ call[c].pc = "dependentAttempt"
  /\ LET ref == call[c].req.dependentAttempt
         dependentAttempt == IF Truthy(ref) THEN findAttempt(Get(ref)) ELSE None
     IN \/ call' = [call EXCEPT ![c] =
             IF DependentAttemptBlocks(dependentAttempt)
               THEN Thrown([@ EXCEPT !.dependentAttempt = dependentAttempt],
                           "dependentAttempt", TerminalStateError(Get(dependentAttempt)))
               ELSE Moved([@ EXCEPT !.dependentAttempt = dependentAttempt],
                          "dependentAttempt")]
        \/ /\ Truthy(ref)
           /\ call' = [call EXCEPT ![c] =
                Thrown(@, "dependentAttempt", CollaboratorError("database"))]
  /\ UNCHANGED <<taskRun, taskRunTag, counter, txLock, objectStore, events, tz, probe, tasks, operations>>

LoadParentAttempt(c) ==
  /\ call[c].pc = "parentAttempt"
  /\ LET ref == call[c].req.parentAttempt
         parentAttempt == IF Truthy(ref) THEN findAttempt(Get(ref)) ELSE None
     IN \/ call' = [call EXCEPT ![c] =
             IF ParentAttemptBlocks(parentAttempt)
               THEN Thrown([@ EXCEPT !.parentAttempt = parentAttempt],
                           "parentAttempt", TerminalStateError(Get(parentAttempt)))
               ELSE Moved([@ EXCEPT !.parentAttempt = parentAttempt], "parentAttempt")]
        \/ /\ Truthy(ref)
           /\ call' = [call EXCEPT ![c] =
                Thrown(@, "parentAttempt", CollaboratorError("database"))]
  /\ UNCHANGED <<taskRun, taskRunTag, counter, txLock, objectStore, events, tz, probe, tasks, operations>>

LoadDependentBatch(c) ==
  /\ call[c].pc = "dependentBatch"
  /\ LET ref == call[c].req.dependentBatch
         dependentBatchRun == IF Truthy(ref) THEN findBatch(Get(ref)) ELSE None
     IN \/ call' = [call EXCEPT ![c] =
             IF DependentBatchBlocks(dependentBatchRun)
               THEN Thrown([@ EXCEPT !.dependentBatchRun = dependentBatchRun],
                           "dependentBatch",
                           TerminalStateError(Get(Get(dependentBatchRun).dependentTaskAttempt)))
               ELSE Moved([@ EXCEPT !.dependentBatchRun = dependentBatchRun],
                          "dependentBatch")]
        \/ /\ Truthy(ref)
           /\ call' = [call EXCEPT ![c] =
                Thrown(@, "dependentBatch", CollaboratorError("database"))]
  /\ UNCHANGED <<taskRun, taskRunTag, counter, txLock, objectStore, events, tz, probe, tasks, operations>>

LoadParentBatch(c) ==
  /\ call[c].pc = "parentBatch"
  /\ LET ref == call[c].req.parentBatch
         parentBatchRun ==
           IF Truthy(ref) THEN {WithoutDepth(b) : b \in findBatch(Get(ref))} ELSE None
     IN \/ call' = [call EXCEPT ![c] =
             IF ParentBatchBlocks(parentBatchRun)
               THEN Thrown([@ EXCEPT !.parentBatchRun = parentBatchRun], "parentBatch",
                           TerminalStateError(Get(Get(parentBatchRun).dependentTaskAttempt)))
               ELSE Moved([@ EXCEPT !.parentBatchRun = parentBatchRun], "parentBatch")]
        \/ /\ Truthy(ref)
           /\ call' = [call EXCEPT ![c] =
                Thrown(@, "parentBatch", CollaboratorError("database"))]
  /\ UNCHANGED <<taskRun, taskRunTag, counter, txLock, objectStore, events, tz, probe, tasks, operations>>

----------------------------------------------------------------------------
(* Lines 241-264: the trace event *)

\* eventRepository.traceEvent records one server-kind event, then runs its callback.
TraceEvent(c) ==
  /\ call[c].pc = "traceEvent"
  /\ \/ /\ events' = events \cup
             {[by |-> c, taskSlug |-> call[c].req.taskId, kind |-> "SERVER",
               environmentId |-> call[c].req.environment.id,
               idempotencyKey |-> call[c].idempotencyKey]}
        /\ call' = [call EXCEPT ![c] = Moved(@, "traceEvent")]
     \/ /\ call' = [call EXCEPT ![c] =
             Thrown(@, "traceEvent", CollaboratorError("event repository"))]
        /\ UNCHANGED events
  /\ UNCHANGED <<taskRun, taskRunTag, counter, txLock, objectStore, tz, probe, tasks, operations>>

----------------------------------------------------------------------------
(* Lines 265-267, 361-375: the counter envelope opens *)

\* The TaskRunNumberCounter rows deriveInitial reads.
TaskRunNumberCounters ==
  {[taskIdentifier |-> TaskA, environmentId |-> "env_prod", lastNumber |-> 2]}

\* The key without the task: one counter for all tasks of an environment.
CounterKeyOfEnvironment(request) == <<"v3-run", request.environment.id>>

\* The key without the environment: one counter for a task in all environments.
CounterKeyOfTask(request) == <<"v3-run", request.taskId>>

\* `v3-run:${environment.id}:${taskId}`
CounterKey(request) == <<"v3-run", request.environment.id, request.taskId>>

\* The row looked up by the task alone, whatever its environment.
deriveInitialOfTask(request) ==
  {row.lastNumber : row \in
     {r \in TaskRunNumberCounters : r.taskIdentifier = request.taskId}}

\* Lines 361-373: counter?.lastNumber of the row for (taskId, environment.id).
deriveInitial(request) ==
  {row.lastNumber : row \in
     {r \in TaskRunNumberCounters :
        r.taskIdentifier = request.taskId /\ r.environmentId = request.environment.id}}

\* The value the counter of `key` stands at: its committed value, or, before it
\* is first seeded, what deriveInitial gives (nothing: 0).
CounterValue(key, initial) ==
  IF key \in DOMAIN counter THEN counter[key]
  ELSE IF IsSome(initial) THEN Get(initial) ELSE 0

\* The counter row of `key` is released: the transaction of its holder ended.
Released(key) == [k \in DOMAIN txLock \ {key} |-> txLock[k]]

\* What ends with the transaction of invocation c, whose callback threw.
Rollback(c) == txLock' = Released(CounterKey(call[c].req))

\* autoIncrementCounter.incrementInTransaction: takes the counter row of the key,
\* which serializes the callers of one key, and hands num = value + 1 to the callback.
IncrementInTransaction(c) ==
  /\ call[c].pc = "counter"
  /\ LET key == CounterKey(call[c].req)
     IN \/ /\ key \notin DOMAIN txLock
           /\ txLock' = (key :> c) @@ txLock
           /\ call' = [call EXCEPT ![c] =
                Moved([@ EXCEPT !.num =
                         Some(CounterValue(key, deriveInitial(call[c].req)) + 1)],
                      "counter")]
        \/ /\ key \notin DOMAIN txLock
           /\ call' = [call EXCEPT ![c] =
                Thrown(@, "counter", CollaboratorError("database"))]
           /\ UNCHANGED txLock
  /\ UNCHANGED <<taskRun, taskRunTag, counter, objectStore, events, tz, probe, tasks, operations>>

----------------------------------------------------------------------------
(* Lines 268-290, 383-432: lockToVersion and the queue name *)

BackgroundWorkers ==
  {[id |-> "worker_1", projectId |-> "proj_1", runtimeEnvironmentId |-> "env_prod",
    version |-> "v1"]}

\* tx.backgroundWorker.findUnique by projectId_runtimeEnvironmentId_version
findBackgroundWorker(environment, version) ==
  {w \in BackgroundWorkers :
     /\ w.projectId = environment.projectId
     /\ w.runtimeEnvironmentId = environment.id
     /\ w.version = version}

LockToVersion(c) ==
  /\ call[c].pc = "lockToVersion"
  /\ LET version == call[c].req.lockToVersion
     IN \/ /\ call' = [call EXCEPT ![c] =
                Moved([@ EXCEPT !.lockedToBackgroundWorker =
                         IF Truthy(version)
                           THEN findBackgroundWorker(call[c].req.environment, Get(version))
                           ELSE None],
                      "lockToVersion")]
           /\ UNCHANGED txLock
        \/ /\ Truthy(version)
           /\ call' = [call EXCEPT ![c] =
                Thrown(@, "lockToVersion", CollaboratorError("database"))]
           /\ Rollback(c)
  /\ UNCHANGED <<taskRun, taskRunTag, counter, objectStore, events, tz, probe, tasks, operations>>

\* findCurrentWorkerFromEnvironment: the promoted worker; none for DEVELOPMENT.
findCurrentWorkerFromEnvironment(environment) ==
  IF environment.type = "DEVELOPMENT" THEN None
  ELSE {w \in BackgroundWorkers : w.runtimeEnvironmentId = environment.id}

\* The BackgroundWorkerTask rows; queueConfig is null, an object or an invalid blob.
BackgroundWorkerTasks ==
  {[workerId |-> "worker_1", slug |-> TaskA,
    queueConfig |-> [shape |-> "object", name |-> Some(<<"M", "a", "i", "l", "!", "!">>)]],
   [workerId |-> "worker_1", slug |-> TaskC,
    queueConfig |-> [shape |-> "invalid", name |-> None]],
   [workerId |-> "worker_1", slug |-> TaskD,
    queueConfig |-> [shape |-> "null", name |-> None]],
   [workerId |-> "worker_1", slug |-> TaskE,
    queueConfig |-> [shape |-> "object", name |-> None]],
   [workerId |-> "worker_1", slug |-> TaskF,
    queueConfig |-> [shape |-> "object", name |-> Some(<<>>)]]}

\* prisma.backgroundWorkerTask.findUnique by workerId_slug
findBackgroundWorkerTask(workerId, slug) ==
  {t \in BackgroundWorkerTasks : t.workerId = workerId /\ t.slug = slug}

\* `task/${taskId}`
DefaultQueueName(taskId) == <<"t", "a", "s", "k", "/">> \o taskId

\* #getQueueName with the worker's queueConfig taken before the caller's name.
getQueueNameConfigFirst(taskId, environment, queueName) ==
  LET worker == findCurrentWorkerFromEnvironment(environment)
      task == IF IsSome(worker)
                THEN findBackgroundWorkerTask(Get(worker).id, taskId) ELSE None
  IN IF IsSome(task) /\ Get(task).queueConfig.shape = "object"
        /\ IsSome(Get(task).queueConfig.name)
       THEN Get(Get(task).queueConfig.name)
     ELSE IF TruthyChars(queueName) THEN Get(queueName)
     ELSE DefaultQueueName(taskId)

\* The lookups #getQueueName makes: the current worker, then its task.
QueueLookups(taskId, environment, queueName) ==
  IF TruthyChars(queueName) THEN <<>>
  ELSE IF ~IsSome(findCurrentWorkerFromEnvironment(environment)) THEN <<"worker">>
  ELSE <<"worker", "task">>

\* #getQueueName
getQueueName(taskId, environment, queueName) ==
  IF TruthyChars(queueName) THEN Get(queueName)
  ELSE LET worker == findCurrentWorkerFromEnvironment(environment)
           task == IF IsSome(worker)
                     THEN findBackgroundWorkerTask(Get(worker).id, taskId) ELSE None
       IN IF ~IsSome(worker) THEN DefaultQueueName(taskId)
          ELSE IF ~IsSome(task) THEN DefaultQueueName(taskId)
          ELSE IF Get(task).queueConfig.shape = "invalid" THEN DefaultQueueName(taskId)
          ELSE IF Get(task).queueConfig.shape = "object" /\ IsSome(Get(task).queueConfig.name)
            THEN Get(Get(task).queueConfig.name)
          ELSE DefaultQueueName(taskId)

UpperCase ==
  <<"A", "B", "C", "D", "E", "F", "G", "H", "I", "J", "K", "L", "M",
    "N", "O", "P", "Q", "R", "S", "T", "U", "V", "W", "X", "Y", "Z">>

LowerCase ==
  <<"a", "b", "c", "d", "e", "f", "g", "h", "i", "j", "k", "l", "m",
    "n", "o", "p", "q", "r", "s", "t", "u", "v", "w", "x", "y", "z">>

Digits == {"0", "1", "2", "3", "4", "5", "6", "7", "8", "9"}

Range(seq) == {seq[i] : i \in 1..Len(seq)}

toLowerCase(ch) ==
  IF ch \in Range(UpperCase) THEN LowerCase[IndexOf(UpperCase, ch)] ELSE ch

\* The characters a sanitized queue name keeps: [a-z0-9/_-]
QueueNameChars == Range(LowerCase) \cup Digits \cup {"/", "_", "-"}

RECURSIVE CollapseRepeats(_)
\* Runs of the replacement character "_" become one.
CollapseRepeats(name) ==
  IF Len(name) < 2 THEN name
  ELSE IF name[1] = "_" /\ name[2] = "_" THEN CollapseRepeats(Tail(name))
  ELSE <<name[1]>> \o CollapseRepeats(Tail(name))

\* sanitizeQueueName: lowercase, "_" for every character outside [a-z0-9/_-],
\* repeats collapsed.
sanitizeQueueName(name) ==
  CollapseRepeats(
    [i \in 1..Len(name) |->
       IF toLowerCase(name[i]) \in QueueNameChars THEN toLowerCase(name[i]) ELSE "_"])

\* The sanitized name taken as it is, empty or not.
ResolvedQueueNameUnchecked(request) ==
  sanitizeQueueName(getQueueName(request.taskId, request.environment, request.queueName))

\* Lines 280-287
ResolvedQueueName(request) ==
  LET queueName ==
        sanitizeQueueName(getQueueName(request.taskId, request.environment,
                                       request.queueName))
  IN IF queueName = <<>> THEN sanitizeQueueName(DefaultQueueName(request.taskId))
     ELSE queueName

QueueName(c) ==
  /\ call[c].pc = "queueName"
  /\ \/ /\ call' = [call EXCEPT ![c] =
             Moved([@ EXCEPT !.queueName = Some(ResolvedQueueName(call[c].req)),
                             !.queueLookups =
                                QueueLookups(call[c].req.taskId, call[c].req.environment,
                                             call[c].req.queueName)],
                   "queueName")]
        /\ UNCHANGED txLock
     \/ /\ ~TruthyChars(call[c].req.queueName)
        /\ call' = [call EXCEPT ![c] =
             Thrown(@, "queueName", CollaboratorError("database"))]
        /\ Rollback(c)
  /\ UNCHANGED <<taskRun, taskRunTag, counter, objectStore, events, tz, probe, tasks, operations>>

----------------------------------------------------------------------------
(* Lines 292-306: the tag loop *)

\* typeof body.options?.tags === "string" ? [body.options.tags] : body.options?.tags
BodyTags(tags) == tags.items

\* The row createTag({ tag, projectId }) finds.
findTag(tag, projectId) ==
  {row \in taskRunTag : row.name = tag /\ row.projectId = projectId}

\* createTag takes no transaction client: it gets or creates the row on the
\* shared client, or answers nothing and writes nothing.
UpsertTags(c) ==
  /\ call[c].pc = "upsertTags"
  /\ LET me == call[c]
         bodyTags == BodyTags(me.req.tags)
         tag == bodyTags[me.tagsDone + 1]
         found == findTag(tag, me.req.environment.projectId)
         created == [id |-> "tag_" \o tag, name |-> tag,
                     projectId |-> me.req.environment.projectId, createdBy |-> c]
         tagRecord == IF IsSome(found) THEN Get(found) ELSE created
     IN \/ /\ me.tagsDone = Len(bodyTags)
           /\ call' = [call EXCEPT ![c] = Moved(@, "upsertTags")]
           /\ UNCHANGED <<taskRunTag, txLock>>
        \/ /\ me.tagsDone < Len(bodyTags)
           /\ taskRunTag' = taskRunTag \cup {tagRecord}
           /\ call' = [call EXCEPT ![c] =
                [@ EXCEPT !.tagIds = Append(@, tagRecord.id), !.tagsDone = @ + 1]]
           /\ UNCHANGED txLock
        \/ /\ me.tagsDone < Len(bodyTags)
           /\ call' = [call EXCEPT ![c] = [@ EXCEPT !.tagsDone = @ + 1]]
           /\ UNCHANGED <<taskRunTag, txLock>>
        \/ /\ me.tagsDone < Len(bodyTags)
           /\ call' = [call EXCEPT ![c] =
                Thrown(@, "upsertTags", CollaboratorError("database"))]
           /\ Rollback(c)
           /\ UNCHANGED taskRunTag
  /\ UNCHANGED <<taskRun, counter, objectStore, events, tz, probe, tasks, operations>>

----------------------------------------------------------------------------
(* Lines 308-357: the Run handed to engine.trigger *)

\* Lines 308-314
\* The depth taken from the parentAttempt before the dependentAttempt.
DepthOfParentFirst(me) ==
  IF IsSome(me.parentAttempt) THEN Get(me.parentAttempt).taskRun.depth + 1
  ELSE IF IsSome(me.dependentAttempt) THEN Get(me.dependentAttempt).taskRun.depth + 1
  ELSE IF IsSome(me.dependentBatchRun)
          /\ IsSome(Get(me.dependentBatchRun).dependentTaskAttempt)
    THEN Get(Get(me.dependentBatchRun).dependentTaskAttempt).taskRun.depth + 1
  ELSE 0

Depth(me) ==
  IF IsSome(me.dependentAttempt) THEN Get(me.dependentAttempt).taskRun.depth + 1
  ELSE IF IsSome(me.parentAttempt) THEN Get(me.parentAttempt).taskRun.depth + 1
  ELSE IF IsSome(me.dependentBatchRun)
          /\ IsSome(Get(me.dependentBatchRun).dependentTaskAttempt)
    THEN Get(Get(me.dependentBatchRun).dependentTaskAttempt).taskRun.depth + 1
  ELSE 0

\* Line 346: parentAttempt?.taskRun.id
ParentTaskRunId(me) == {a.taskRun.id : a \in me.parentAttempt}

\* The root taken from the run of the dependentAttempt when there is no parentAttempt.
RootTaskRunIdOfAnyAttempt(me) ==
  LET attempt == Coalesce(me.parentAttempt, me.dependentAttempt)
  IN IF IsSome(attempt)
       THEN Coalesce(Get(attempt).taskRun.rootTaskRunId, Some(Get(attempt).taskRun.id))
       ELSE None

\* The root taken to be the parent's run, whatever root that run has.
RootTaskRunIdOfParent(me) == {a.taskRun.id : a \in me.parentAttempt}

\* Line 347: parentAttempt?.taskRun.rootTaskRunId ?? parentAttempt?.taskRun.id
RootTaskRunId(me) ==
  IF IsSome(me.parentAttempt)
    THEN Coalesce(Get(me.parentAttempt).taskRun.rootTaskRunId,
                  Some(Get(me.parentAttempt).taskRun.id))
    ELSE None

\* The time of queueing set whether or not the run is delayed.
QueuedAtAlways(delayUntil) == Some(Now)

\* Line 342: delayUntil ? undefined : new Date()
QueuedAt(delayUntil) == IF IsSome(delayUntil) THEN None ELSE Some(Now)

\* The flag with the dependentBatchRun left out.
ResumeParentOnDependentAttempt(me) == IsSome(me.dependentAttempt)

\* Line 349: !!(dependentAttempt ?? dependentBatchRun)
ResumeParentOnCompletion(me) ==
  IsSome(Coalesce(me.dependentAttempt, me.dependentBatchRun))

\* The number of the first Run of the key, whatever the counter handed out.
RunNumberOfFirstRun(me) ==
  (IF IsSome(deriveInitial(me.req)) THEN Get(deriveInitial(me.req)) ELSE 0) + 1

\* Line 321: number: num, the value the counter handed to the callback.
RunNumber(me) == Get(me.num)

\* Lines 320-355: the first argument of engine.trigger.
TriggerArguments(me) ==
  [number |-> RunNumber(me),
   friendlyId |-> Get(me.runFriendlyId),
   environment |-> me.req.environment,
   idempotencyKey |-> me.idempotencyKey,
   taskIdentifier |-> me.req.taskId,
   payload |-> IF IsSome(Get(me.payloadPacket).data)
                 THEN Get(Get(me.payloadPacket).data) ELSE <<>>,
   payloadType |-> Get(me.payloadPacket).dataType,
   lockedToVersionId |-> {w.id : w \in me.lockedToBackgroundWorker},
   queueName |-> Get(me.queueName),
   masterQueue |-> "main",
   delayUntil |-> me.delayUntil,
   queuedAt |-> QueuedAt(me.delayUntil),
   ttl |-> me.ttl,
   tags |-> me.tagIds,
   parentTaskRunId |-> ParentTaskRunId(me),
   rootTaskRunId |-> RootTaskRunId(me),
   batchId |-> Coalesce({b.id : b \in me.dependentBatchRun},
                        {b.id : b \in me.parentBatchRun}),
   resumeParentOnCompletion |-> ResumeParentOnCompletion(me),
   depth |-> Depth(me)]

\* The TaskRun row the engine writes for these arguments.
CreatedRun(args) ==
  [id |-> <<"id_">> \o args.friendlyId,
   status |-> "PENDING",
   number |-> args.number,
   friendlyId |-> args.friendlyId,
   runtimeEnvironmentId |-> args.environment.id,
   idempotencyKey |-> args.idempotencyKey,
   taskIdentifier |-> args.taskIdentifier,
   payload |-> args.payload,
   payloadType |-> args.payloadType,
   lockedToVersionId |-> args.lockedToVersionId,
   queueName |-> args.queueName,
   masterQueue |-> args.masterQueue,
   delayUntil |-> args.delayUntil,
   queuedAt |-> args.queuedAt,
   ttl |-> args.ttl,
   tags |-> args.tags,
   parentTaskRunId |-> args.parentTaskRunId,
   rootTaskRunId |-> args.rootTaskRunId,
   batchId |-> args.batchId,
   resumeParentOnCompletion |-> args.resumeParentOnCompletion,
   depth |-> args.depth]

\* The unique index of TaskRun rejects the row: a committed row has its key.
\* Rows without an idempotency key (NULL) never collide.
ViolatesUniqueIndex(row) ==
  /\ IsSome(row.idempotencyKey)
  /\ \E other \in taskRun : IdempotencyIndex(other) = IdempotencyIndex(row)

\* engine.trigger(arguments, this._prisma): the insert goes through the service's
\* own client, not the transaction of the counter, so it is committed at once.
EngineTrigger(c) ==
  /\ call[c].pc = "trigger"
  /\ LET args == TriggerArguments(call[c])
         row == CreatedRun(args)
     IN \/ /\ ~ViolatesUniqueIndex(row)
           /\ taskRun' = taskRun \cup {row}
           /\ call' = [call EXCEPT ![c] =
                Moved([@ EXCEPT !.triggered = Append(@, args), !.taskRun = Some(row)],
                      "trigger")]
           /\ UNCHANGED txLock
        \/ /\ ViolatesUniqueIndex(row)
           /\ call' = [call EXCEPT ![c] =
                Thrown([@ EXCEPT !.triggered = Append(@, args)], "trigger",
                       UniqueConstraintError)]
           /\ Rollback(c)
           /\ UNCHANGED taskRun
        \/ /\ call' = [call EXCEPT ![c] =
                Thrown([@ EXCEPT !.triggered = Append(@, args)], "trigger",
                       CollaboratorError("engine"))]
           /\ Rollback(c)
           /\ UNCHANGED taskRun
  /\ UNCHANGED <<taskRunTag, counter, objectStore, events, tz, probe, tasks, operations>>

----------------------------------------------------------------------------
(* Lines 359-377: the callback returns and the counter transaction ends *)

Commit(c) ==
  /\ call[c].pc = "commit"
  /\ LET key == CounterKey(call[c].req)
     IN \/ /\ counter' = (key :> Get(call[c].num)) @@ counter
           /\ txLock' = Released(key)
           /\ call' = [call EXCEPT ![c] =
                Returned([@ EXCEPT !.counterCommitted = TRUE], "commit", Get(@.taskRun))]
        \/ /\ call' = [call EXCEPT ![c] =
                Thrown(@, "commit", CollaboratorError("database"))]
           /\ Rollback(c)
           /\ UNCHANGED counter
  /\ UNCHANGED <<taskRun, taskRunTag, objectStore, events, tz, probe, tasks, operations>>

----------------------------------------------------------------------------
(* Lines 480-579: the duration and delay functions applied on their own *)

\* No function is being applied.
Idle ==
  [apply |-> "none", stage |-> "idle", seconds |-> 0, value |-> None,
   text |-> None, result |-> None]

\* The whole numbers of seconds around the bounds of the units of a duration.
SecondsAtUnitBounds ==
  { 59, 60, 61, 3599, 3600, 3601, 43199, 43200, 43201, 86399, 86400, 86401,
    90061, 604799, 604800, 604801, 694861, 1209600, 6047999, 6048000 }

MaxProbeSeconds == 30

ProbeSeconds == (-1..MaxProbeSeconds) \cup SecondsAtUnitBounds

\* The values parseDelay is applied to.
ProbeDelays ==
  { None,
    Some(StringDelay(<<>>)),
    Some(DateDelay(Now - 60)),
    Some(DateDelay(Now)),
    Some(DateDelay(Now + 60)),
    Some(StringDelay(<<"2", "0", "0", "0">>)),
    Some(StringDelay(<<"2", "0", "3", "0">>)),
    Some(StringDelay(<<"1", "h">>)),
    Some(StringDelay(<<"0", "s">>)),
    Some(StringDelay(<<"3", "0">>)),
    Some(StringDelay(<<"1", "d", "1", "2", "h">>)),
    Some(StringDelay(<<"1", "w", "2", "d", "3", "0", "s">>)),
    Some(StringDelay(<<"1", "d", "1", "w">>)),
    Some(StringDelay(<<"1", "h", " ">>)),
    Some(StringDelay(<<"h">>)),
    Some(StringDelay(<<"s", "o", "o", "n">>)) }

\* stringifyDuration applied to the seconds drawn.
Stringify ==
  /\ probe.apply = "roundTrip"
  /\ probe.stage = "input"
  /\ probe' = [probe EXCEPT !.stage = "stringified",
                             !.text = stringifyDuration(probe.seconds)]
  /\ UNCHANGED <<call, taskRun, taskRunTag, counter, txLock, objectStore, events, tz, tasks, operations>>

\* parseNaturalLanguageDuration applied to the string stringifyDuration gave.
Parse ==
  /\ probe.apply = "roundTrip"
  /\ probe.stage = "stringified"
  /\ IsSome(probe.text)
  /\ probe' = [probe EXCEPT !.stage = "parsed",
                             !.result = parseNaturalLanguageDuration(Get(probe.text))]
  /\ UNCHANGED <<call, taskRun, taskRunTag, counter, txLock, objectStore, events, tz, tasks, operations>>

\* parseDelay applied to the value drawn.
ParseDelay ==
  /\ probe.apply = "parseDelay"
  /\ probe.stage = "input"
  /\ probe' = [probe EXCEPT !.stage = "parsed", !.result = parseDelay(probe.value)]
  /\ UNCHANGED <<call, taskRun, taskRunTag, counter, txLock, objectStore, events, tz, tasks, operations>>

----------------------------------------------------------------------------
(* src/unnamed/part_000, lines 1-41: TaskTracker *)

TaskIds == {"t1", "t2"}

CpuValues == {1, 2}

MemoryValues == {0, 4}

\* type Task
Tasks == [id : TaskIds, cpu : CpuValues, memory : MemoryValues]

MaxOperations == 3

\* Map.prototype.has
MapHas(map, key) == \E i \in 1..Len(map) : map[i].id = key

\* Map.prototype.set that adds an entry whether or not the key is present.
MapSetAppending(map, key, value) == Append(map, value)

\* Map.prototype.set: the value of a present key is replaced where it stands, a
\* new key is added at the end.
MapSet(map, key, value) ==
  IF MapHas(map, key)
    THEN [i \in 1..Len(map) |-> IF map[i].id = key THEN value ELSE map[i]]
    ELSE Append(map, value)

\* Map.prototype.delete
MapDelete(map, key) == SelectSeq(map, LAMBDA entry : entry.id # key)

\* addTask(task)
addTask(task) ==
  /\ Len(operations) < MaxOperations
  /\ tasks' = MapSet(tasks, task.id, task)
  /\ operations' = Append(operations, [name |-> "addTask", id |-> task.id, task |-> Some(task)])
  /\ UNCHANGED <<call, taskRun, taskRunTag, counter, txLock, objectStore, events, tz, probe>>

\* deleteTask(id)
deleteTask(id) ==
  /\ Len(operations) < MaxOperations
  /\ tasks' = MapDelete(tasks, id)
  /\ operations' = Append(operations, [name |-> "deleteTask", id |-> id, task |-> None])
  /\ UNCHANGED <<call, taskRun, taskRunTag, counter, txLock, objectStore, events, tz, probe>>

\* getTask(id): the value of the key, undefined (None) without one
getTask(id) == {tasks[i] : i \in {j \in 1..Len(tasks) : tasks[j].id = id}}

\* listTasks()
listTasks == tasks

RECURSIVE ResourceUsageFrom(_, _)
\* The loop of getResourceUsage from entry i on, added to `usage`.
ResourceUsageFrom(i, usage) ==
  IF i > Len(tasks) THEN usage
  ELSE ResourceUsageFrom(i + 1, [cpu |-> usage.cpu + tasks[i].cpu,
                                 memory |-> usage.memory + tasks[i].memory])

\* getResourceUsage()
getResourceUsage == ResourceUsageFrom(1, [cpu |-> 0, memory |-> 0])

\* get totalTasks
totalTasks == Len(tasks)

----------------------------------------------------------------------------
(* The specification *)

Init ==
  /\ call \in [Calls -> {NewCall(r) : r \in Requests}]
  /\ \A c \in Calls : c > 1 => call[c].req \in Contenders
  /\ taskRun = {}
  /\ taskRunTag = {}
  /\ counter = << >>
  /\ txLock = << >>
  /\ objectStore = {}
  /\ events = {}
  /\ tz = UTC
  /\ probe = Idle
  /\ tasks = <<>>
  /\ operations = <<>>

Next ==
  \E c \in Calls :
    \/ Normalize(c)
    \/ Lookup(c)
    \/ GetEntitlement(c)
    \/ ValidateTags(c)
    \/ HandlePayload(c)
    \/ LoadDependentAttempt(c)
    \/ LoadParentAttempt(c)
    \/ LoadDependentBatch(c)
    \/ LoadParentBatch(c)
    \/ TraceEvent(c)
    \/ IncrementInTransaction(c)
    \/ LockToVersion(c)
    \/ QueueName(c)
    \/ UpsertTags(c)
    \/ EngineTrigger(c)
    \/ Commit(c)

Spec == Init /\ [][Next]_vars

\* The functions on their own: the process is in some time zone, the input is
\* drawn, and no invocation of call() moves.
InitFunctions ==
  /\ call = [c \in Calls |-> NewCall(BaseRequest)]
  /\ taskRun = {}
  /\ taskRunTag = {}
  /\ counter = << >>
  /\ txLock = << >>
  /\ objectStore = {}
  /\ events = {}
  /\ tz \in TimeZones
  /\ tasks = <<>>
  /\ operations = <<>>
  /\ \/ \E seconds \in ProbeSeconds :
          probe = [Idle EXCEPT !.apply = "roundTrip", !.stage = "input",
                               !.seconds = seconds]
     \/ \E value \in ProbeDelays :
          probe = [Idle EXCEPT !.apply = "parseDelay", !.stage = "input",
                               !.value = value]

NextFunctions ==
  \/ Stringify
  \/ Parse
  \/ ParseDelay

SpecFunctions == InitFunctions /\ [][NextFunctions]_vars

\* A TaskTracker on its own: it is constructed empty, and no invocation of
\* call() moves.
InitTaskTracker ==
  /\ call = [c \in Calls |-> NewCall(BaseRequest)]
  /\ taskRun = {}
  /\ taskRunTag = {}
  /\ counter = << >>
  /\ txLock = << >>
  /\ objectStore = {}
  /\ events = {}
  /\ tz = UTC
  /\ probe = Idle
  /\ tasks = <<>>
  /\ operations = <<>>

NextTaskTracker ==
  \/ \E task \in Tasks : addTask(task)
  \/ \E id \in TaskIds \cup {"t3"} : deleteTask(id)

SpecTaskTracker == InitTaskTracker /\ [][NextTaskTracker]_vars

----------------------------------------------------------------------------
(* What an invocation has done, read off the state *)

Finished(c) == call[c].pc \in {"done", "failed"}

\* The step at which the invocation returned or threw.
LastStep(c) == call[c].steps[Len(call[c].steps)]

\* The idempotency key a request carries.
RequestKey(request) == Coalesce(request.optionsIdempotencyKey, request.idempotencyKey)

\* Two requests are for the same (environment.id, taskId).
SameTask(r1, r2) == r1.environment.id = r2.environment.id /\ r1.taskId = r2.taskId

\* The committed Run rows with the idempotency key of the request.
RunsOfKey(request) ==
  {row \in taskRun :
     /\ row.runtimeEnvironmentId = request.environment.id
     /\ row.taskIdentifier = request.taskId
     /\ row.idempotencyKey = RequestKey(request)}

\* The committed Run rows invocation c inserted.
RunsBy(c) == {row \in taskRun : row.friendlyId = generateFriendlyId(c)}

TagsBy(c) == {row \in taskRunTag : row.createdBy = c}

EventsBy(c) == {e \in events : e.by = c}

UploadsBy(c) ==
  {blob \in objectStore : blob.filename = PayloadFilename(generateFriendlyId(c))}

\* The numbers invocation c passed to engine.trigger.
NumbersOf(c) == {call[c].triggered[i].number : i \in 1..Len(call[c].triggered)}

----------------------------------------------------------------------------
(* C1 *)

\* Invocations c and d carry the same (environment.id, taskId, idempotencyKey),
\* the key present and not empty.
SameIdempotencyKey(c, d) ==
  /\ SameTask(call[c].req, call[d].req)
  /\ RequestKey(call[c].req) = RequestKey(call[d].req)
  /\ Truthy(RequestKey(call[c].req))

\* The invocation ended on its own: it returned, or it threw what the database
\* answered to its insert, and no collaborator failed under it.
EndedUndisturbed(c) ==
  \/ call[c].pc = "done"
  \/ call[c].pc = "failed" /\ call[c].error = UniqueConstraintError

\* C1: invocations with the same (environment.id, taskId, non-null idempotencyKey),
\* in any interleaving, persist exactly one Run and all return that Run; the
\* invocation that loses the race to insert returns the existing Run and does
\* not throw the unique violation.
C1_AllCallsReturnTheOneRun ==
  \A c, d \in Calls :
    (c # d /\ SameIdempotencyKey(c, d) /\ EndedUndisturbed(c) /\ EndedUndisturbed(d))
      => /\ Cardinality(RunsOfKey(call[c].req)) = 1
         /\ call[c].result = RunsOfKey(call[c].req)
         /\ call[d].result = RunsOfKey(call[c].req)

----------------------------------------------------------------------------
(* C2 *)

\* C2: in every reachable state no two committed Runs share
\* (environmentId, taskIdentifier, idempotencyKey) with a non-null key.
C2_IdempotencyKeyIsUnique ==
  \A r1, r2 \in taskRun :
    (/\ IsSome(r1.idempotencyKey)
     /\ r1.runtimeEnvironmentId = r2.runtimeEnvironmentId
     /\ r1.taskIdentifier = r2.taskIdentifier
     /\ r1.idempotencyKey = r2.idempotencyKey) => r1 = r2

\* Two invocations with one key both passed the gate and both reached
\* engine.trigger; one Run is committed and the other insert was rejected.
C2_Witness ==
  \E c, d \in Calls :
    /\ c # d
    /\ SameIdempotencyKey(c, d)
    /\ Len(call[c].triggered) = 1
    /\ Len(call[d].triggered) = 1
    /\ call[d].error = UniqueConstraintError
    /\ Cardinality(RunsOfKey(call[c].req)) = 1

----------------------------------------------------------------------------
(* C3 *)

\* The invocations for the (environment.id, taskId) of invocation c.
SameTaskCalls(c) == {d \in Calls : SameTask(call[c].req, call[d].req)}

\* The counter value of a request's (environment.id, taskId) before any call.
InitialCounter(request) ==
  IF IsSome(deriveInitial(request)) THEN Get(deriveInitial(request)) ELSE 0

\* The invocation succeeded by creating a Run (not by an idempotency hit).
Created(c) == call[c].pc = "done" /\ ~IsSome(call[c].existingRun)

\* C3: when the N invocations for one (environment.id, taskId) all succeed in
\* creating a Run, the numbers they passed to engine.trigger are pairwise
\* distinct and are exactly k+1 .. k+N, k the counter value before them.
C3_NumbersAreContiguous ==
  \A c \in Calls :
    (\A d \in SameTaskCalls(c) : Created(d))
      => LET k == InitialCounter(call[c].req)
             N == Cardinality(SameTaskCalls(c))
         IN /\ UNION {NumbersOf(d) : d \in SameTaskCalls(c)} = (k + 1)..(k + N)
            /\ \A d, e \in SameTaskCalls(c) : d # e => NumbersOf(d) \cap NumbersOf(e) = {}
            /\ \A d \in SameTaskCalls(c) : Cardinality(NumbersOf(d)) = 1

\* Two invocations without idempotency key for one task, whose counter stood at
\* k = 2, both created a Run: with the numbers 3 and 4.
C3_Witness ==
  \E c, d \in Calls :
    /\ c # d
    /\ SameTask(call[c].req, call[d].req)
    /\ ~IsSome(RequestKey(call[c].req)) /\ ~IsSome(RequestKey(call[d].req))
    /\ Created(c) /\ Created(d)
    /\ InitialCounter(call[c].req) = 2
    /\ NumbersOf(c) = {3} /\ NumbersOf(d) = {4}

----------------------------------------------------------------------------
(* C4 *)

\* The invocation entered the counter envelope: the counter handed it a number.
EnteredEnvelope(c) == IsSome(call[c].num)

\* C4: when a step inside the counter envelope fails, the counter bump and the
\* Run insert are undone together: once the invocation has ended, the Run with
\* its number is committed if and only if the incremented counter is.
C4_CounterAndRunCommitTogether ==
  \A c \in Calls :
    (Finished(c) /\ EnteredEnvelope(c))
      => (RunsBy(c) # {} <=> call[c].counterCommitted)

----------------------------------------------------------------------------
(* C5 *)

\* C5: every database write of an invocation is made inside the transaction of
\* the counter envelope, so an invocation that failed leaves no tag row behind.
C5_FailedCallLeavesNoTagRows ==
  \A c \in Calls : call[c].pc = "failed" => TagsBy(c) = {}

----------------------------------------------------------------------------
(* C6 *)

\* The steps before the counter envelope that can fail: the reads of the
\* database, the entitlement check, the tag count and the payload packet.
StepsBeforeEnvelope ==
  {"lookup", "entitlement", "validateTags", "payload",
   "dependentAttempt", "parentAttempt", "dependentBatch", "parentBatch"}

FailedBeforeEnvelope(c) == call[c].pc = "failed" /\ LastStep(c) \in StepsBeforeEnvelope

\* No Run, no counter bump, no tag row and no trace event came of invocation c.
NothingPersisted(c) ==
  /\ RunsBy(c) = {}
  /\ call[c].triggered = <<>>
  /\ ~EnteredEnvelope(c) /\ ~call[c].counterCommitted
  /\ TagsBy(c) = {}
  /\ EventsBy(c) = {}

\* C6: an invocation that failed at a step before the counter envelope changed
\* nothing: no Run, no counter bump, no tag row, no trace event and no
\* object-store upload.
C6_FailureBeforeEnvelopeChangesNothing ==
  \A c \in Calls :
    FailedBeforeEnvelope(c) => NothingPersisted(c) /\ UploadsBy(c) = {}

----------------------------------------------------------------------------
(* C7 *)

\* Invocation c did nothing but normalize its request and look the key up.
OnlyLookedUp(c) ==
  /\ call[c].steps = <<"normalize", "lookup">>
  /\ call[c].entitlementFetches = 0
  /\ UploadsBy(c) = {}
  /\ ~IsSome(call[c].dependentAttempt) /\ ~IsSome(call[c].parentAttempt)
  /\ ~IsSome(call[c].dependentBatchRun) /\ ~IsSome(call[c].parentBatchRun)
  /\ EventsBy(c) = {}
  /\ ~EnteredEnvelope(c) /\ ~call[c].counterCommitted
  /\ TagsBy(c) = {}
  /\ call[c].triggered = <<>>
  /\ RunsBy(c) = {}

\* Invocation c began after invocation d had returned a Run for the same
\* (environment.id, taskId, idempotencyKey).
CalledAfter(c, d) ==
  /\ c # d
  /\ d \in call[c].startedAfter
  /\ SameIdempotencyKey(c, d)

\* C7: an invocation whose idempotency lookup found a Run returns that Run, a
\* committed row with its (environment.id, taskId, idempotencyKey), and makes
\* no entitlement fetch, payload upload, dependency load, trace event, counter
\* increment, tag upsert or engine.trigger call; an invocation made after
\* another returned a Run for the same key returns the same Run and invokes
\* neither the entitlement service nor the engine.
C7_IdempotencyHitHasNoSideEffects ==
  \A c \in Calls :
    /\ IsSome(call[c].existingRun)
         => /\ call[c].pc = "done"
            /\ call[c].result = call[c].existingRun
            /\ call[c].result \subseteq RunsOfKey(call[c].req)
            /\ OnlyLookedUp(c)
    /\ \A d \in Calls :
         (CalledAfter(c, d) /\ Len(call[c].steps) >= 2
            /\ call[c].error.name # "CollaboratorError")
           => /\ call[c].pc = "done"
              /\ call[c].result = call[d].result
              /\ call[c].entitlementFetches = 0
              /\ call[c].triggered = <<>>

\* Of two sequential invocations with one key the first fetched the entitlement
\* and called the engine once, the second returned the first's Run and did neither.
C7_Witness ==
  \E c, d \in Calls :
    /\ CalledAfter(c, d)
    /\ Created(d)
    /\ call[d].entitlementFetches = 1 /\ Len(call[d].triggered) = 1
    /\ call[c].pc = "done"
    /\ IsSome(call[c].existingRun)
    /\ call[c].result = RunsBy(d)
    /\ call[c].entitlementFetches = 0 /\ call[c].triggered = <<>>

----------------------------------------------------------------------------
(* C8 *)

\* The place the claimed order gives each step: tag-count validation belongs to
\* the normalization, the payload packet follows the dependency loads, the queue
\* name precedes the counter envelope, and the trace event, the counter, the
\* version lock, the tag upserts and engine.trigger make up the last component.
ClaimedRank(step) ==
  CASE step \in {"normalize", "validateTags"} -> 1
    [] step = "lookup" -> 2
    [] step = "entitlement" -> 3
    [] step \in {"dependentAttempt", "parentAttempt", "dependentBatch", "parentBatch"} -> 4
    [] step = "payload" -> 5
    [] step = "queueName" -> 6
    [] OTHER -> 7

\* C8: the steps of an invocation occur in the order normalization with the
\* tag-count validation, idempotency lookup, entitlement check, dependency
\* loading and validation, payload packet handling, queue-name resolution,
\* counter envelope with engine.trigger: no step is taken after a step of a
\* later component.
C8_StepsFollowTheClaimedOrder ==
  \A c \in Calls :
    \A i, j \in 1..Len(call[c].steps) :
      i < j => ClaimedRank(call[c].steps[i]) <= ClaimedRank(call[c].steps[j])

----------------------------------------------------------------------------
(* C9 *)

\* The attempts a request depends on: its dependentAttempt and the
\* dependentTaskAttempt of its dependentBatch, where the rows exist.
DependedOnAttempt(request) ==
  IF Truthy(request.dependentAttempt) THEN findAttempt(Get(request.dependentAttempt))
  ELSE None

DependedOnBatchAttempt(request) ==
  IF Truthy(request.dependentBatch)
    THEN UNION {b.dependentTaskAttempt : b \in findBatch(Get(request.dependentBatch))}
    ELSE None

\* The attempt has a final status, or its taskRun has.
IsTerminal(attempt) ==
  \/ attempt.status \in FINAL_ATTEMPT_STATUSES
  \/ attempt.taskRun.status \in FINAL_RUN_STATUSES

\* The error names the attempt's status when that is final, the run's otherwise.
CarriesTerminalStatus(error, attempt) ==
  /\ error.name = "ServiceValidationError"
  /\ IF attempt.status \in FINAL_ATTEMPT_STATUSES
       THEN error.about = "parent attempt" /\ error.status = attempt.status
       ELSE error.about = "parent run" /\ error.status = attempt.taskRun.status

\* C9: for a request whose dependentAttempt, or whose dependentBatch's
\* dependentTaskAttempt, is in a terminal state, no trace event is emitted, no
\* counter incremented, no Run created and engine.trigger never called; the
\* invocation never gets past the check of that reference, and once it has
\* loaded the reference it has failed with the validation error that carries
\* the attempt's status when the attempt is final and the run's status otherwise.
C9_TerminalDependencyFailsTheCall ==
  \A c \in Calls :
    LET me == call[c]
        attempt == DependedOnAttempt(me.req)
        batchAttempt == DependedOnBatchAttempt(me.req)
    IN /\ (\E a \in attempt \cup batchAttempt : IsTerminal(a))
            => /\ EventsBy(c) = {}
               /\ ~EnteredEnvelope(c) /\ ~call[c].counterCommitted
               /\ RunsBy(c) = {}
               /\ me.triggered = <<>>
               /\ me.pc = "done" => IsSome(me.existingRun)
       /\ \A a \in attempt :
            (IsTerminal(a) /\ IsSome(me.dependentAttempt))
              => /\ me.pc = "failed"
                 /\ LastStep(c) = "dependentAttempt"
                 /\ CarriesTerminalStatus(me.error, a)
       /\ \A a \in batchAttempt :
            (IsTerminal(a) /\ IsSome(me.dependentBatchRun))
              => /\ me.pc = "failed"
                 /\ LastStep(c) = "dependentBatch"
                 /\ CarriesTerminalStatus(me.error, a)

\* An invocation loaded a dependentAttempt that is still executing while its
\* run has completed, and failed with the run's status; nothing came of it.
C9_Witness ==
  \E c \in Calls :
    /\ call[c].pc = "failed"
    /\ LastStep(c) = "dependentAttempt"
    /\ call[c].req.dependentAttempt = Some("attempt_runDone")
    /\ call[c].error = ParentRunStatusError("COMPLETED_SUCCESSFULLY")
    /\ EventsBy(c) = {} /\ RunsBy(c) = {} /\ call[c].triggered = <<>>

----------------------------------------------------------------------------
(* C10 *)

\* The request refers to a parentAttempt and/or a parentBatch and to no
\* dependentAttempt or dependentBatch.
OnlyParentReferences(request) ==
  /\ ~Truthy(request.dependentAttempt) /\ ~Truthy(request.dependentBatch)
  /\ Truthy(request.parentAttempt) \/ Truthy(request.parentBatch)

ParentAttemptOf(request) ==
  IF Truthy(request.parentAttempt) THEN findAttempt(Get(request.parentAttempt)) ELSE None

ParentBatchOf(request) ==
  IF Truthy(request.parentBatch) THEN findBatch(Get(request.parentBatch)) ELSE None

\* The Run carries the lineage of the request's parentAttempt and parentBatch.
CarriesLineage(run, request) ==
  /\ run.parentTaskRunId = {a.taskRun.id : a \in ParentAttemptOf(request)}
  /\ run.rootTaskRunId =
       UNION {IF IsSome(a.taskRun.rootTaskRunId) THEN a.taskRun.rootTaskRunId
              ELSE {a.taskRun.id} : a \in ParentAttemptOf(request)}
  /\ run.batchId = {b.id : b \in ParentBatchOf(request)}
  /\ \A a \in ParentAttemptOf(request) : run.depth = a.taskRun.depth + 1
  /\ ParentAttemptOf(request) = {} => run.depth = 0
  /\ run.resumeParentOnCompletion = FALSE

\* C10: a request whose only references are a parentAttempt and/or a
\* parentBatch, in a terminal state or not, is never refused for that state: the
\* invocation throws no terminal-status validation error, fails at the load of
\* a parent reference only when the database does, and the Run it creates
\* carries the lineage fields of the parents.
C10_TerminalParentNeverBlocks ==
  \A c \in Calls :
    OnlyParentReferences(call[c].req)
      => /\ call[c].error.about \notin {"parent attempt", "parent run"}
         /\ (call[c].pc = "failed" /\ LastStep(c) \in {"parentAttempt", "parentBatch"})
              => call[c].error = CollaboratorError("database")
         /\ \A i \in 1..Len(call[c].triggered) :
              CarriesLineage(call[c].triggered[i], call[c].req)
         /\ \A run \in RunsBy(c) : CarriesLineage(run, call[c].req)
         /\ Created(c) => \A run \in call[c].result : CarriesLineage(run, call[c].req)

\* A request whose parentAttempt has the final status COMPLETED, on a canceled
\* run, and whose parentBatch hangs on a failed attempt, created its Run.
C10_Witness ==
  \E c \in Calls :
    /\ call[c].req.parentAttempt = Some("attempt_bothDone")
    /\ call[c].req.parentBatch = Some("batch_failed")
    /\ Created(c)
    /\ \E run \in RunsBy(c) :
         /\ call[c].result = {run}
         /\ run.parentTaskRunId = {"run_p4"}
         /\ run.rootTaskRunId = {"run_p4"}
         /\ run.batchId = {"b3"}
         /\ run.depth = 1

----------------------------------------------------------------------------
(* C11 *)

\* The entitlement service answered invocation c with hasAccess = false.
Refused(c) == call[c].entitlement = Some(Some([hasAccess |-> FALSE]))

\* C11: an invocation in an environment other than DEVELOPMENT, without an
\* idempotency hit, to which the entitlement service answered hasAccess = false
\* has failed with OutOfEntitlementError and made no database write, no
\* object-store upload, no trace event and no engine.trigger call.
C11_RefusedCallFailsWithoutEffects ==
  \A c \in Calls :
    Refused(c)
      => /\ call[c].req.environment.type # "DEVELOPMENT"
         /\ ~IsSome(call[c].existingRun)
         /\ call[c].pc = "failed"
         /\ call[c].error = OutOfEntitlementError
         /\ call[c].steps = <<"normalize", "lookup", "entitlement">>
         /\ NothingPersisted(c)
         /\ UploadsBy(c) = {}

\* A request with a payload large enough to be offloaded and with tags, refused
\* by the entitlement service: it threw OutOfEntitlementError and left nothing.
C11_Witness ==
  \E c \in Calls :
    /\ Refused(c)
    /\ call[c].error = OutOfEntitlementError
    /\ call[c].req.payload = BigPayload
    /\ call[c].req.tags.given = "array"
    /\ objectStore = {} /\ taskRun = {} /\ taskRunTag = {} /\ events = {}

----------------------------------------------------------------------------
(* C12 *)

\* The entitlement service answered invocation c, and not with hasAccess = false:
\* with nothing, or with hasAccess = true.
NotRefused(c) ==
  call[c].entitlement \in {Some(None), Some(Some([hasAccess |-> TRUE]))}

\* C12: for a DEVELOPMENT environment the entitlement service is never
\* consulted; in any other environment an invocation that was answered nothing
\* goes on as one that was answered hasAccess = true: neither throws
\* OutOfEntitlementError, and right after the answer both stand before the
\* tag-count validation with no error and nothing written.
C12_AbsentReplyIsAccess ==
  \A c \in Calls :
    /\ call[c].req.environment.type = "DEVELOPMENT"
         => call[c].entitlementFetches = 0 /\ call[c].entitlement = None
    /\ NotRefused(c)
         => /\ call[c].req.environment.type # "DEVELOPMENT"
            /\ call[c].entitlementFetches = 1
            /\ call[c].error # OutOfEntitlementError
            /\ Len(call[c].steps) >= 3 /\ call[c].steps[3] = "entitlement"
            /\ Len(call[c].steps) = 3
                 => /\ call[c].pc = "validateTags"
                    /\ call[c].error = NoError
                    /\ NothingPersisted(c) /\ UploadsBy(c) = {}

\* One invocation for a DEVELOPMENT environment created its Run without the
\* entitlement service being asked; another, answered nothing, created its Run.
C12_Witness ==
  \E c, d \in Calls :
    /\ call[c].req.environment.type = "DEVELOPMENT"
    /\ Created(c) /\ call[c].entitlementFetches = 0
    /\ call[d].entitlement = Some(None)
    /\ Created(d) /\ call[d].entitlementFetches = 1

----------------------------------------------------------------------------
(* C13 *)

\* The request carries a dependentAttempt or a dependentBatch reference.
CarriesDependentReference(request) ==
  Truthy(request.dependentAttempt) \/ Truthy(request.dependentBatch)

\* The request's dependentAttempt or dependentBatch reference resolves to a record.
DependentReferenceResolves(request) ==
  \/ Truthy(request.dependentAttempt) /\ IsSome(findAttempt(Get(request.dependentAttempt)))
  \/ Truthy(request.dependentBatch) /\ IsSome(findBatch(Get(request.dependentBatch)))

\* C13 as stated: the Run a successful invocation created has
\* resumeParentOnCompletion = true if and only if the request carries a
\* dependentAttempt or a dependentBatch reference, a reference that resolves to
\* no record included.
C13_ResumeIffReferenceCarried ==
  \A c \in Calls :
    Created(c)
      => \A run \in RunsBy(c) :
           run.resumeParentOnCompletion <=> CarriesDependentReference(call[c].req)

\* C13 as amended: the Run a successful invocation created, and the arguments
\* engine.trigger was given, have resumeParentOnCompletion = true if and only
\* if the request's dependentAttempt or dependentBatch reference resolves to a
\* record; a reference that resolves to no record counts as absent.
C13_ResumeIffReferenceResolves ==
  \A c \in Calls :
    /\ \A i \in 1..Len(call[c].triggered) :
         call[c].triggered[i].resumeParentOnCompletion
           <=> DependentReferenceResolves(call[c].req)
    /\ Created(c)
         => \A run \in RunsBy(c) :
              run.resumeParentOnCompletion <=> DependentReferenceResolves(call[c].req)

\* A request whose dependentAttempt reference resolves to no record created a
\* Run that does not resume a parent.
C13_Witness ==
  \E c \in Calls :
    /\ Created(c)
    /\ call[c].req.dependentAttempt = Some("attempt_unknown")
    /\ \E run \in RunsBy(c) : ~run.resumeParentOnCompletion

----------------------------------------------------------------------------
(* C14 *)

\* C14: the Run handed to engine.trigger, and the Run a successful invocation
\* created, has queuedAt unset if and only if its delayUntil is set, whatever
\* the form of the delay: absent, a Date, a date string in the past or in the
\* future, a duration string, a string that is neither.
C14_QueuedAtIffNotDelayed ==
  \A c \in Calls :
    /\ \A i \in 1..Len(call[c].triggered) :
         /\ call[c].triggered[i].queuedAt = None <=> call[c].triggered[i].delayUntil # None
         /\ call[c].triggered[i].delayUntil = parseDelay(call[c].req.delay)
    /\ Created(c)
         => \A run \in RunsBy(c) : run.queuedAt = None <=> run.delayUntil # None

\* Two Runs were created: one delayed by "1h", with delayUntil an hour from now
\* and no queuedAt; one without delay, queued now.
C14_Witness ==
  \E c, d \in Calls :
    /\ Created(c)
    /\ call[c].req.delay = Some(StringDelay(<<"1", "h">>))
    /\ \E run \in RunsBy(c) : run.delayUntil = Some(Now + 3600) /\ run.queuedAt = None
    /\ Created(d)
    /\ call[d].req.delay = None
    /\ \E run \in RunsBy(d) : run.delayUntil = None /\ run.queuedAt = Some(Now)

----------------------------------------------------------------------------
(* C15 *)

\* The request carries one of the four references.
CarriesReference(request) ==
  \/ Truthy(request.dependentAttempt) \/ Truthy(request.parentAttempt)
  \/ Truthy(request.dependentBatch) \/ Truthy(request.parentBatch)

\* The depth the rule gives a request: of the dependentAttempt if that exists,
\* else of the parentAttempt, else of the dependentBatch's attempt, one deeper
\* than its taskRun; else 0.
RuleDepth(request) ==
  IF DependedOnAttempt(request) # {}
    THEN (CHOOSE a \in DependedOnAttempt(request) : TRUE).taskRun.depth + 1
  ELSE IF ParentAttemptOf(request) # {}
    THEN (CHOOSE a \in ParentAttemptOf(request) : TRUE).taskRun.depth + 1
  ELSE IF DependedOnBatchAttempt(request) # {}
    THEN (CHOOSE a \in DependedOnBatchAttempt(request) : TRUE).taskRun.depth + 1
  ELSE 0

\* C15 as stated: the created Run's depth is that of the rule, and so it is one
\* more than a parent's depth whenever the request carries any parent or
\* dependent reference, and 0 only when it carries none.
C15_DepthIsParentDepthPlusOne ==
  \A c \in Calls :
    Created(c)
      => \A run \in RunsBy(c) :
           /\ run.depth = RuleDepth(call[c].req)
           /\ CarriesReference(call[c].req) => run.depth >= 1
           /\ run.depth = 0 => ~CarriesReference(call[c].req)

\* C15 as amended: the created Run's depth is that of the rule; it is one more
\* than a taskRun's depth exactly when a dependentAttempt, a parentAttempt or
\* the dependentTaskAttempt of a dependentBatch exists, and 0 otherwise: also
\* for a request whose only reference is a parentBatch, a dependentBatch
\* without attempt, or a friendlyId that resolves to no record.
C15_DepthFollowsTheRule ==
  \A c \in Calls :
    /\ \A i \in 1..Len(call[c].triggered) :
         call[c].triggered[i].depth = RuleDepth(call[c].req)
    /\ Created(c)
         => \A run \in RunsBy(c) :
              /\ run.depth = RuleDepth(call[c].req)
              /\ run.depth = 0
                   <=> /\ DependedOnAttempt(call[c].req) = {}
                       /\ ParentAttemptOf(call[c].req) = {}
                       /\ DependedOnBatchAttempt(call[c].req) = {}

\* A request whose only reference is a parentBatch, whose attempt's run has
\* depth 2, created a Run of depth 0.
C15_Witness ==
  \E c \in Calls :
    /\ Created(c)
    /\ call[c].req.parentBatch = Some("batch_runDone")
    /\ ~Truthy(call[c].req.parentAttempt)
    /\ \E run \in RunsBy(c) : run.depth = 0 /\ run.batchId = {"b4"}

----------------------------------------------------------------------------
(* C16 *)

\* A Run's parentTaskRunId and rootTaskRunId are those of the request's
\* parentAttempt: the id of its taskRun, and that run's rootTaskRunId where it
\* has one, its id where it has none; both unset without a parentAttempt.
ParentAndRootOf(run, request) ==
  /\ \A a \in ParentAttemptOf(request) :
       /\ run.parentTaskRunId = Some(a.taskRun.id)
       /\ run.rootTaskRunId =
            (IF a.taskRun.rootTaskRunId # None THEN a.taskRun.rootTaskRunId
             ELSE Some(a.taskRun.id))
  /\ ParentAttemptOf(request) = {}
       => run.parentTaskRunId = None /\ run.rootTaskRunId = None

\* C16: every Run handed to engine.trigger, and every Run created, has as
\* parentTaskRunId the id of the parentAttempt's taskRun and as rootTaskRunId
\* that run's rootTaskRunId when it has one, else its id; both are unset when
\* there is no parentAttempt, a dependentAttempt or a batch reference
\* notwithstanding.
C16_ParentAndRootComeFromParentAttempt ==
  \A c \in Calls :
    /\ \A i \in 1..Len(call[c].triggered) :
         ParentAndRootOf(call[c].triggered[i], call[c].req)
    /\ Created(c) => \A run \in RunsBy(c) : ParentAndRootOf(run, call[c].req)

\* A request with a dependentAttempt and a parentAttempt, the parent's run
\* run_p2 having the root run_root, created a Run with that parent and root.
C16_Witness ==
  \E c \in Calls :
    /\ Created(c)
    /\ call[c].req.dependentAttempt = Some("attempt_live")
    /\ call[c].req.parentAttempt = Some("attempt_failed")
    /\ \E run \in RunsBy(c) :
         run.parentTaskRunId = {"run_p2"} /\ run.rootTaskRunId = {"run_root"}

----------------------------------------------------------------------------
(* C17 *)

\* The tags option of the request is a sequence of more than MAX_TAGS_PER_RUN tags.
AsksTooManyTags(request) ==
  request.tags.given = "array" /\ Len(request.tags.items) > 8

\* C17: an invocation whose request has a sequence of more than 8 tags ends,
\* unless a collaborator failed under it, with the validation error that names
\* the limit and the requested count, and creates no Run; a string tag is
\* handed on as a sequence of one tag; every Run handed to engine.trigger has
\* at most 8 tags.
C17_TooManyTagsFailValidation ==
  \A c \in Calls :
    /\ (AsksTooManyTags(call[c].req) /\ Finished(c)
          /\ call[c].error.name # "CollaboratorError")
         => /\ call[c].pc = "failed"
            /\ call[c].error.name = "ServiceValidationError"
            /\ call[c].error.limit = 8
            /\ call[c].error.count = Len(call[c].req.tags.items)
            /\ RunsBy(c) = {}
    /\ \A i \in 1..Len(call[c].triggered) :
         /\ Len(call[c].triggered[i].tags) <= 8
         /\ call[c].req.tags.given = "string" => Len(call[c].triggered[i].tags) <= 1

----------------------------------------------------------------------------
(* C18 *)

\* The packet made of the request's payload, before any offloading.
RequestPacket(request) ==
  createPayloadPacket(request.payload,
                      IF request.payloadType = None THEN "application/json"
                      ELSE Get(request.payloadType))

\* The string begins with the prefix.
StartsWith(string, prefix) ==
  Len(string) >= Len(prefix) /\ SubSeq(string, 1, Len(prefix)) = prefix

\* The offload predicate reports needsOffloading for the packet.
NeedsOffloading(packet) ==
  /\ packet.data # None /\ Get(packet.data) # <<>>
  /\ packetRequiresOffloading(packet, TASK_PAYLOAD_OFFLOAD_THRESHOLD).needsOffloading

\* C18: once an invocation has handled its payload packet: when the offload
\* predicate reported needsOffloading, the object store holds exactly one blob
\* of the invocation, at "<runFriendlyId>/payload.json", with the packet's data
\* and its original dataType, and the Run handed to engine.trigger and created
\* has that path as payload, "application/store" as payloadType and the
\* runFriendlyId of the path as friendlyId; when it reported false, or the
\* packet has no data, nothing is uploaded and the packet's data and dataType
\* go to engine.trigger as they are.  Before the packet is handled nothing is
\* uploaded.
C18_OffloadedPayloadIsStoredOnce ==
  \A c \in Calls :
    LET me == call[c]
        packet == RequestPacket(me.req)
    IN /\ me.payloadPacket = None => UploadsBy(c) = {}
       /\ (me.payloadPacket # None /\ NeedsOffloading(packet))
            => LET path == Get(me.runFriendlyId) \o <<"/payload.json">>
               IN /\ {blob \in objectStore : StartsWith(blob.filename, Get(me.runFriendlyId))}
                       = {[filename |-> path, data |-> Get(packet.data),
                           contentType |-> packet.dataType,
                           environmentId |-> me.req.environment.id]}
                  /\ me.payloadPacket = Some([data |-> Some(path),
                                              dataType |-> "application/store"])
                  /\ \A i \in 1..Len(me.triggered) :
                       /\ me.triggered[i].payload = path
                       /\ me.triggered[i].payloadType = "application/store"
                       /\ me.triggered[i].friendlyId = Get(me.runFriendlyId)
                  /\ \A run \in RunsBy(c) :
                       /\ run.payload = path
                       /\ run.payloadType = "application/store"
                       /\ run.friendlyId = Get(me.runFriendlyId)
       /\ (me.payloadPacket # None /\ ~NeedsOffloading(packet))
            => /\ UploadsBy(c) = {}
               /\ me.payloadPacket = Some(packet)
               /\ \A i \in 1..Len(me.triggered) :
                    /\ me.triggered[i].payloadType = packet.dataType
                    /\ packet.data # None => me.triggered[i].payload = Get(packet.data)

\* An invocation with a payload above the threshold created its Run: one blob
\* is stored under the Run's friendlyId and the Run's payload is its path.
C18_Witness ==
  \E c \in Calls :
    /\ Created(c)
    /\ call[c].req.payload = BigPayload
    /\ call[c].req.payloadType = None
    /\ Cardinality(UploadsBy(c)) = 1
    /\ \E run \in RunsBy(c) :
         /\ run.payloadType = "application/store"
         /\ run.payload = run.friendlyId \o <<"/payload.json">>
         /\ \E blob \in objectStore :
              blob.filename = run.payload /\ blob.contentType = "application/json"

----------------------------------------------------------------------------
(* C19 *)

\* "task/<taskId>"
TaskQueue(request) == <<"t", "a", "s", "k", "/">> \o request.taskId

\* The BackgroundWorkerTask rows with slug = taskId of the environment's
\* current worker.
CurrentTasks(request) ==
  {t \in BackgroundWorkerTasks :
     /\ t.slug = request.taskId
     /\ \E w \in findCurrentWorkerFromEnvironment(request.environment) : t.workerId = w.id}

\* The name the precedence gives: the caller's when it is not empty; else
\* "task/<taskId>" without current worker, without task row or with a
\* queueConfig that does not parse; else queueConfig.name where present, else
\* "task/<taskId>".
PrecedenceName(request) ==
  IF request.queueName # None /\ Get(request.queueName) # <<>>
    THEN Get(request.queueName)
  ELSE IF \/ findCurrentWorkerFromEnvironment(request.environment) = {}
          \/ CurrentTasks(request) = {}
          \/ \E t \in CurrentTasks(request) : t.queueConfig.shape = "invalid"
    THEN TaskQueue(request)
  ELSE IF \E t \in CurrentTasks(request) : t.queueConfig.name # None
    THEN Get((CHOOSE t \in CurrentTasks(request) : TRUE).queueConfig.name)
  ELSE TaskQueue(request)

\* The name after sanitization, with the fallback for the empty result.
Sanitized(name, request) ==
  IF sanitizeQueueName(name) = <<>> THEN sanitizeQueueName(TaskQueue(request))
  ELSE sanitizeQueueName(name)

\* C19: the queue name an invocation resolves is, sanitized, the name the
\* precedence gives, and so is the queueName handed to engine.trigger; when the
\* caller supplied a name neither the worker nor the task is looked up.
C19_QueueNameFollowsPrecedence ==
  \A c \in Calls :
    /\ call[c].queueName # None
         => /\ call[c].queueName = Some(Sanitized(PrecedenceName(call[c].req), call[c].req))
            /\ (call[c].req.queueName # None /\ Get(call[c].req.queueName) # <<>>)
                 => call[c].queueLookups = <<>>
    /\ \A i \in 1..Len(call[c].triggered) :
         call[c].triggered[i].queueName
           = Sanitized(PrecedenceName(call[c].req), call[c].req)

\* One Run was created on the queue the caller named, "My Q", without a lookup;
\* another, with no name from the caller, on the queue of its task's
\* queueConfig, "Mail!!", after the worker and the task were looked up.
C19_Witness ==
  \E c, d \in Calls :
    /\ Created(c)
    /\ call[c].req.queueName = Some(<<"M", "y", " ", "Q">>)
    /\ call[c].queueLookups = <<>>
    /\ \E run \in RunsBy(c) : run.queueName = <<"m", "y", "_", "q">>
    /\ Created(d)
    /\ call[d].req.queueName = None
    /\ call[d].queueLookups = <<"worker", "task">>
    /\ \E run \in RunsBy(d) : run.queueName = <<"m", "a", "i", "l", "_">>

----------------------------------------------------------------------------
(* C20 *)

\* The characters [a-z0-9/_-].
AllowedInQueueName ==
  {"a", "b", "c", "d", "e", "f", "g", "h", "i", "j", "k", "l", "m", "n", "o", "p", "q",
   "r", "s", "t", "u", "v", "w", "x", "y", "z",
   "0", "1", "2", "3", "4", "5", "6", "7", "8", "9", "/", "_", "-"}

\* C20: the queueName of every Run handed to engine.trigger is not empty and
\* has only characters of [a-z0-9/_-]; where sanitizing the resolved name gives
\* the empty string, it is the sanitized "task/<taskId>".
C20_QueueNameIsSanitized ==
  \A c \in Calls :
    \A i \in 1..Len(call[c].triggered) :
      LET queueName == call[c].triggered[i].queueName
      IN /\ queueName # <<>>
         /\ \A k \in 1..Len(queueName) : queueName[k] \in AllowedInQueueName
         /\ sanitizeQueueName(PrecedenceName(call[c].req)) = <<>>
              => queueName = sanitizeQueueName(TaskQueue(call[c].req))

\* The task's queueConfig has the name "": sanitizing gives the empty string,
\* and the Run was created on the queue "task/f".
C20_Witness ==
  \E c \in Calls :
    /\ Created(c)
    /\ call[c].req.taskId = TaskF
    /\ call[c].req.queueName = None
    /\ \E run \in RunsBy(c) : run.queueName = <<"t", "a", "s", "k", "/", "f">>

----------------------------------------------------------------------------
(* C21 *)

\* The round trip was made for a number of seconds of the claimed range.
RoundTripMade ==
  /\ probe.apply = "roundTrip"
  /\ probe.stage = "parsed"
  /\ probe.seconds \in 1..6048000

\* C21: for every whole number of seconds n from 1 to ten weeks,
\* parseNaturalLanguageDuration(stringifyDuration(n)) is the time exactly n
\* seconds after the current time.
C21_RoundTripAddsExactlyTheSeconds ==
  RoundTripMade => probe.result = Some(Now + probe.seconds)

----------------------------------------------------------------------------
(* C22 *)

\* parseDelay was applied to the value drawn.
DelayParsed == probe.apply = "parseDelay" /\ probe.stage = "parsed"

\* Strings of the values drawn that are no date and match no duration component.
NeitherDateNorDuration ==
  { <<"3", "0">>, <<"1", "d", "1", "w">>, <<"1", "h", " ">>, <<"h">>,
    <<"s", "o", "o", "n">> }

\* C22: parseDelay gives no delay for a missing or empty value, a Date unchanged
\* (in the past too), for a string that is an absolute date no delay when the
\* date is not after the current time and the date otherwise, and for any other
\* string the result of parseNaturalLanguageDuration, which is no delay when
\* the string matches no duration component.
C22_ParseDelayFollowsItsCases ==
  DelayParsed =>
    LET value == probe.value
    IN IF value = None THEN probe.result = None
       ELSE IF Get(value).kind = "Date" THEN probe.result = Some(Get(value).time)
       ELSE IF Get(value).text = <<>> THEN probe.result = None
       ELSE IF IsSome(DateParse(Get(value).text))
         THEN probe.result = IF Get(DateParse(Get(value).text)) > Now
                               THEN DateParse(Get(value).text)
                               ELSE None
         ELSE /\ probe.result = parseNaturalLanguageDuration(Get(value).text)
              /\ Get(value).text \in NeitherDateNorDuration => probe.result = None

\* parseDelay was applied to a date string of the past and gave no delay.
C22_Witness ==
  /\ DelayParsed
  /\ probe.value = Some(StringDelay(<<"2", "0", "0", "0">>))
  /\ probe.result = None

----------------------------------------------------------------------------
(* C23 *)

\* The ttl the claim gives a Run of the request.
ClaimedTtl(request) ==
  IF request.ttl = None
    THEN IF request.environment.type = "DEVELOPMENT" THEN Some(<<"1", "0", "m">>) ELSE None
    ELSE IF Get(request.ttl).kind = "number"
      THEN stringifyDuration(Get(request.ttl).seconds)
      ELSE Some(Get(request.ttl).text)

\* C23: the ttl of a Run is stringifyDuration of the value when the request
\* gives a number, the string unchanged when it gives a string, "10m" when it
\* gives none and the environment type is DEVELOPMENT, and undefined when it
\* gives none otherwise.
C23_TtlFollowsTheRequest ==
  \A c \in Calls : \A run \in RunsBy(c) : run.ttl = ClaimedTtl(call[c].req)

\* Runs were created for a ttl of 3690 seconds and for no ttl in production.
C23_Witness ==
  \E c, d \in Calls :
    /\ call[c].req.ttl = Some(NumberTtl(3690))
    /\ \E run \in RunsBy(c) : run.ttl = Some(<<"1", "h", "1", "m", "3", "0", "s">>)
    /\ call[d].req.ttl = None
    /\ call[d].req.environment.type = "PRODUCTION"
    /\ \E run \in RunsBy(d) : run.ttl = None

----------------------------------------------------------------------------
(* C29 *)

\* The request gives a number of seconds that is not positive as its ttl.
AsksTtlWithoutDuration(request) ==
  /\ IsSome(request.ttl)
  /\ Get(request.ttl).kind = "number"
  /\ Get(request.ttl).seconds <= 0

\* C29: a ttl given as a number that is 0 or negative leaves the Run's ttl
\* undefined in every environment type; the DEVELOPMENT default is not taken.
C29_TtlWithoutDurationIsUndefined ==
  \A c \in Calls : \A run \in RunsBy(c) :
    AsksTtlWithoutDuration(call[c].req) => run.ttl = None

\* A Run was created in a DEVELOPMENT environment for a ttl of 0, without ttl.
C29_Witness ==
  \E c \in Calls :
    /\ call[c].req.ttl = Some(NumberTtl(0))
    /\ call[c].req.environment.type = "DEVELOPMENT"
    /\ \E run \in RunsBy(c) : run.ttl = None

----------------------------------------------------------------------------
(* C24 *)

\* The keys whose committed counter value differs between two states of the counter.
ChangedKeys(old, new) ==
  {key \in DOMAIN new : key \notin DOMAIN old \/ new[key] # old[key]}

\* A step changes the counter of no key but that of the invocation taking it.
OnlyOwnCounterChanges ==
  \A key \in ChangedKeys(counter, counter') :
    \E c \in Calls : call'[c].pc # call[c].pc /\ CounterKey(call[c].req) = key

\* The number an invocation is handed lies within the invocations of its own
\* key: the first number of the key when no other invocation has its key.
NumbersFollowOwnKey ==
  \A c \in Calls :
    IsSome(call[c].num) =>
      Get(call[c].num) \in (InitialCounter(call[c].req) + 1)
                             ..(InitialCounter(call[c].req) + Cardinality(SameTaskCalls(c)))

\* C24: the counters keyed "v3-run:<environment.id>:<taskId>" are independent:
\* no invocation changes the counter of another key, and the numbers handed
\* out under a key are what they are without the invocations for other keys.
C24_CountersAreIndependent ==
  []NumbersFollowOwnKey /\ [][OnlyOwnCounterChanges]_vars

\* Invocations for two keys both committed their counter, each the first of its key.
C24_Witness ==
  \E c, d \in Calls :
    /\ CounterKey(call[c].req) # CounterKey(call[d].req)
    /\ call[c].counterCommitted /\ call[d].counterCommitted
    /\ counter[CounterKey(call[c].req)] = InitialCounter(call[c].req) + 1
    /\ counter[CounterKey(call[d].req)] = InitialCounter(call[d].req) + 1
    /\ InitialCounter(call[c].req) # InitialCounter(call[d].req)

----------------------------------------------------------------------------
(* C25 *)

\* The TaskRunNumberCounter rows for the (taskId, environment.id) of a request.
CounterRowsOf(request) ==
  {row \in TaskRunNumberCounters :
     row.taskIdentifier = request.taskId /\ row.environmentId = request.environment.id}

\* The number the claim gives the first Run of the key of a request.
ClaimedFirstNumber(request) ==
  IF CounterRowsOf(request) = {} THEN 1
  ELSE (CHOOSE row \in CounterRowsOf(request) : TRUE).lastNumber + 1

\* An invocation handed its number while the counter of its key is not seeded
\* is handed the claimed first number.
FirstNumberIsSeeded ==
  \A c \in Calls :
    (/\ call[c].num = None
     /\ call'[c].num # None
     /\ CounterKey(call[c].req) \notin DOMAIN counter)
      => call'[c].num = Some(ClaimedFirstNumber(call[c].req))

\* The Run of an invocation that is alone with its key has the claimed first number.
FirstRunHasTheSeededNumber ==
  \A c \in Calls : \A run \in RunsBy(c) :
    SameTaskCalls(c) = {c} => run.number = ClaimedFirstNumber(call[c].req)

\* C25: when the counter of a key is first seeded, its initial value is the
\* lastNumber of the TaskRunNumberCounter row for (taskId, environment.id) if
\* there is one, so that the first Run has number lastNumber + 1; without such
\* a row the first Run has number 1.
C25_FirstNumberComesFromTheCounterRow ==
  []FirstRunHasTheSeededNumber /\ [][FirstNumberIsSeeded]_vars

\* A first Run was created with number 3 for the task with a counter row at 2,
\* and one with number 1 for the same task in an environment without a row.
C25_Witness ==
  \E c, d \in Calls :
    /\ call[c].req.taskId = TaskA /\ call[c].req.environment.id = "env_prod"
    /\ \E run \in RunsBy(c) : run.number = 3
    /\ call[d].req.taskId = TaskA /\ call[d].req.environment.id = "env_dev"
    /\ \E run \in RunsBy(d) : run.number = 1

----------------------------------------------------------------------------
(* C26 *)

\* The invocation uploaded its payload: its packet now names the stored file.
Uploaded(c) ==
  /\ call[c].payloadPacket # None
  /\ Get(call[c].payloadPacket).dataType = "application/store"
  /\ NeedsOffloading(RequestPacket(call[c].req))

\* C26: the upload an invocation made is not undone when a later step of it
\* fails (dependency validation, tag upsert, counter transaction or
\* engine.trigger): the blob at "<runFriendlyId>/payload.json" remains, and no
\* Run with that friendlyId exists.
C26_FailedCallLeavesAnOrphanBlob ==
  \A c \in Calls :
    (call[c].pc = "failed" /\ Uploaded(c))
      => /\ UploadsBy(c) # {}
         /\ RunsBy(c) = {}

----------------------------------------------------------------------------
(* C27 *)

RECURSIVE Occurrences(_, _)
\* How often the step occurs among the steps taken.
Occurrences(steps, step) ==
  IF steps = <<>> THEN 0
  ELSE (IF Head(steps) = step THEN 1 ELSE 0) + Occurrences(Tail(steps), step)

\* C27: every invocation calls engine.trigger at most once and emits at most
\* one trace event; an invocation that returned a Run it created (no
\* idempotency hit) has called engine.trigger exactly once, with the number the
\* counter handed it and the friendlyId generated for it.
C27_TriggersAndTracesAtMostOnce ==
  \A c \in Calls :
    /\ Len(call[c].triggered) <= 1
    /\ Occurrences(call[c].steps, "trigger") <= 1
    /\ Occurrences(call[c].steps, "traceEvent") <= 1
    /\ Cardinality(EventsBy(c)) <= 1
    /\ Created(c) =>
         /\ Len(call[c].triggered) = 1
         /\ call[c].triggered[1].number = Get(call[c].num)
         /\ call[c].triggered[1].friendlyId = generateFriendlyId(c)

\* Two invocations of one key returned the Runs they created, the second with
\* the number after the first's.
C27_Witness ==
  \E c, d \in Calls :
    /\ c # d
    /\ Created(c) /\ Created(d)
    /\ SameTask(call[c].req, call[d].req)
    /\ EventsBy(c) # {} /\ EventsBy(d) # {}
    /\ call[d].triggered[1].number = call[c].triggered[1].number + 1

----------------------------------------------------------------------------
(* C28 *)

\* C28: in every Run handed to engine.trigger, parentTaskRunId is set if and
\* only if rootTaskRunId is set.
C28_ParentIsSetIffRootIsSet ==
  \A c \in Calls : \A i \in 1..Len(call[c].triggered) :
    IsSome(call[c].triggered[i].parentTaskRunId)
      <=> IsSome(call[c].triggered[i].rootTaskRunId)

\* A Run of depth 1 or more was handed to engine.trigger with neither set, for
\* a request with a dependentAttempt and no parentAttempt.
C28_Witness ==
  \E c \in Calls :
    /\ call[c].req.dependentAttempt # None
    /\ call[c].req.parentAttempt = None
    /\ Len(call[c].triggered) = 1
    /\ call[c].triggered[1].depth >= 1
    /\ call[c].triggered[1].parentTaskRunId = None
    /\ call[c].triggered[1].rootTaskRunId = None

----------------------------------------------------------------------------
(* C30 *)

\* The operations made on the id, in order.
OperationsOn(id) == SelectSeq(operations, LAMBDA op : op.id = id)

\* The ids added and not deleted since.
LiveIds ==
  {id \in {operations[i].id : i \in 1..Len(operations)} :
     OperationsOn(id)[Len(OperationsOn(id))].name = "addTask"}

\* The task last added under a live id.
LastAdded(id) == Get(OperationsOn(id)[Len(OperationsOn(id))].task)

RECURSIVE SumOver(_, _, _)
\* The sum of a field over the tasks last added under the ids.
SumOver(ids, field, sum) ==
  IF ids = {} THEN sum
  ELSE LET id == CHOOSE i \in ids : TRUE
       IN SumOver(ids \ {id}, field, sum + LastAdded(id)[field])

\* The tracker holds one task per live id, the one last added, and no other.
HoldsTheLiveTasks ==
  /\ \A id \in LiveIds :
       /\ Cardinality({i \in 1..Len(tasks) : tasks[i].id = id}) = 1
       /\ getTask(id) = Some(LastAdded(id))
  /\ \A i \in 1..Len(tasks) : tasks[i].id \in LiveIds
  /\ totalTasks = Cardinality(LiveIds)
  /\ getResourceUsage = [cpu |-> SumOver(LiveIds, "cpu", 0),
                         memory |-> SumOver(LiveIds, "memory", 0)]

\* A deleteTask of an id the tracker does not hold leaves its tasks as they are.
DeleteOfUnknownIdChangesNothing ==
  (/\ Len(operations') = Len(operations) + 1
   /\ operations'[Len(operations')].name = "deleteTask"
   /\ ~MapHas(tasks, operations'[Len(operations')].id))
    => tasks' = tasks

\* C30: after any sequence of addTask and deleteTask the tracker holds exactly
\* one task per id added and not deleted since (a later addTask of the id
\* replaces the earlier), totalTasks is the number of these ids, and
\* getResourceUsage is the sums of cpu and memory over exactly these tasks; a
\* deleteTask of an unknown id changes nothing.
C30_TrackerHoldsTheLiveTasks ==
  []HoldsTheLiveTasks /\ [][DeleteOfUnknownIdChangesNothing]_vars

\* A task was added and replaced by another of its id, and an id never added
\* was deleted: the tracker holds the one task, the later one.
C30_Witness ==
  /\ \E k \in 1..Len(operations) :
       operations[k].name = "deleteTask" /\ operations[k].id = "t3"
  /\ \E i, j \in 1..Len(operations) :
       /\ i < j
       /\ operations[i].name = "addTask" /\ operations[j].name = "addTask"
       /\ operations[i].id = operations[j].id
       /\ operations[i].task # operations[j].task
  /\ totalTasks = 1
  /\ getResourceUsage.cpu = 2

============================================================================
